---- MODULE Spec2Model ----
(***************************************************************************)
(* Model of the Fake Perfect API fixture:                                  *)
(*   - the in-memory variant (src/main.py): three dictionaries guarded by  *)
(*     threading locks; a handler is split at each lock-guarded block and  *)
(*     at each unlocked change of a shared dict object;                    *)
(*   - the database-backed variant (src/app): SQL rows, one handler one    *)
(*     transaction.                                                        *)
(* Response models and JSON responses are carriers of the values the       *)
(* handler hands them.  Decimals are integers counting thousandths         *)
(* (mills), so that quantize_price has something to round.  The dict       *)
(* objects that handlers alias (users, orders) live in a heap indexed by   *)
(* their identifier; the store holds the keys.  Product dicts are never    *)
(* changed in place, so products_store maps a key to the value.            *)
(* A SHA-256 digest is taken as injective: a tag is the pair of the weak   *)
(* prefix and the serialized text it was computed from.                    *)
(***************************************************************************)
EXTENDS Integers, Sequences, FiniteSets, TLC

VARIABLES
    users_store,          \* keys of users_store (src/main.py:501)
    user_obj,             \* the dict object of each user, by id
    products_store,       \* products_store: id -> product dict
    product_id_sequence,  \* next value of itertools.count (src/main.py:509)
    orders_store,         \* keys of orders_store
    order_obj,            \* the dict object of each order, by id
    clock,                \* datetime.utcnow() as a logical time
    db_users,             \* rows of the user table: id -> row (src/app/models.py:25)
    db_orders,            \* rows of the order table: id -> row (src/app/models.py:39)
    db_items,             \* rows of the item table (src/app/models.py:57)
    db_audit,             \* rows of the auditlog table (src/app/models.py:73)
    pc,                   \* position of each in-flight request
    arg,                  \* its path, query, header and body parameters
    ref,                  \* the user or order reference a handler holds
    loc,                  \* the other local variables of a handler
    resp,                 \* the response, once pc = "done"
    dirty,                \* history: the request has written to a store
    held,                 \* the validator a client kept from a 200 response
    etag_calls,           \* log of the calls of the ETag functions, for their own check
    cred,                 \* the Authorization and X-API-Key headers the client sends
    warm,                 \* the warm-up process of src/perfectapi/warmup.py
    calls,                \* log of the calls made to the perfectapi package
    lock_owner            \* the request inside the `with` block of each lock

mem_vars == <<users_store, user_obj, products_store, product_id_sequence,
              orders_store, order_obj, clock, db_users,
              db_orders, db_items, db_audit>>
req_vars == <<pc, arg, ref, loc, resp, dirty, held>>
side_vars == <<etag_calls, cred, warm, calls>>
vars == <<mem_vars, req_vars, side_vars, lock_owner>>

----------------------------------------------------------------------------
(* Bounds and value domains *)

MaxProductId == 4     \* create_product is cut off after this identifier
MaxQty == 2           \* quantities an order line may ask for
MaxClock == 2         \* creations counted by the logical clock
MaxPage == 3          \* page numbers a list request may ask for
MaxPageSize == 2      \* page sizes a list request may ask for
MaxCalls == 2         \* calls kept in a log of calls
MaxTimeout == 3       \* warm-up timeouts, in ticks of time.monotonic()
MaxLatency == 2       \* ticks one readiness request may take
MaxPoll == 1          \* poll intervals, in ticks

Reqs == {"r1", "r2"}
UserIds == {"u1", "u2", "u3"}
OrderIds == {"o1", "o2"}
ProductIds == 1..MaxProductId

\* Request bodies carry raw strings; EmailStr normalises the domain part to
\* lower case and keeps the local part as typed.
RawEmails == {"Admin@example.com", "admin@EXAMPLE.COM", "new@example.com"}

EmailStr(raw) ==
    CASE raw = "admin@EXAMPLE.COM" -> "admin@example.com"
      [] raw = "ada.lovelace@EXAMPLE.COM" -> "ada.lovelace@example.com"
      [] OTHER -> raw

\* str.lower() on the e-mail addresses of the model
lower(s) ==
    CASE s = "Admin@example.com" -> "admin@example.com"
      [] s = "admin@EXAMPLE.COM" -> "admin@example.com"
      [] s = "Ada.Lovelace@example.com" -> "ada.lovelace@example.com"
      [] s = "ada.lovelace@EXAMPLE.COM" -> "ada.lovelace@example.com"
      [] OTHER -> s

DbUserIds == {"d1", "d2", "d3", "d4"}
DbRawEmails == {"Ada.Lovelace@example.com", "ada.lovelace@EXAMPLE.COM",
                "grace.hopper@example.com", "new@example.com"}

RawSkus == {"SKU-BOOK01", "SKU-NEW001", "sku-new001"}

\* Sku = constr(pattern="^SKU-[A-Z0-9]{6}$")
SkuPattern(raw) == raw \in {"SKU-BOOK01", "SKU-DEV999", "SKU-NEW001"}

\* str.upper() on the SKUs of the model
upper(s) == IF s = "sku-new001" THEN "SKU-NEW001" ELSE s

\* 10.00, 5.01 and 5.005
RawPrices == {10000, 5010, 5005}

\* condecimal(decimal_places=2)
DecimalPlaces2(raw) == raw % 10 = 0

OrderStatus == {"new", "paid", "shipped", "cancelled"}

Unset == "unset"          \* a field left out of a PATCH body (exclude_unset)
NoId == "none"
NoUser == [email |-> "none", name |-> "none"]
NoProduct == [id |-> 0, sku |-> "none", price |-> 0]
NoOrder == [user_id |-> NoId, status |-> "none", created_at |-> 0,
            payment_method |-> "none", notes |-> "none", items |-> <<>>]

NoArg == [op |-> "none", uid |-> NoId, email |-> Unset, name |-> Unset,
          pid |-> 0, sku |-> Unset, price |-> 0, total |-> 0,
          payment_method |-> Unset, notes |-> Unset,
          oid |-> NoId, status |-> Unset, items |-> <<>>,
          inm |-> <<>>, page |-> 0, page_size |-> 0]
NoLoc == [product |-> NoProduct, i |-> 0, items |-> <<>>, items_out |-> <<>>,
          total |-> 0, snap |-> <<>>, n |-> 0, out |-> <<>>, at_snapshot |-> <<>>]
NoResp == [status |-> 0, body |-> <<>>, etag |-> <<>>]
NoHeld == [kind |-> "none", id |-> NoId, etag |-> <<>>, body |-> <<>>]
NoCred == [token |-> "none", api_key |-> "none"]
NoWarm == [pc |-> "idle", entry |-> "none", now |-> 0, timeout |-> 0, deadline |-> 0,
           poll_interval |-> 0, ready_at |-> 0, log |-> <<>>, waited |-> "pending",
           started |-> 0, returncode |-> 0, result |-> -1, error |-> "none"]

----------------------------------------------------------------------------
(* Decimal arithmetic and serialization *)

\* Decimal.quantize(Decimal("0.01"), rounding=ROUND_HALF_UP), value >= 0
quantize_price(value) == ((value + 5) \div 10) * 10

\* every dict key of the model, in the order json.dumps(sort_keys=True) uses
KeyOrder == <<"action", "audit_logs", "created_at", "email", "full_name", "id",
              "is_active", "items", "joined_at", "line_total", "name", "notes", "payment_method", "placed_at", "price",
              "product_id", "qty", "sku", "status", "total", "updated_at",
              "user_id">>

KeyRank(k) == CHOOSE i \in DOMAIN KeyOrder : KeyOrder[i] = k

RECURSIVE InsertSorted(_, _)
InsertSorted(pair, sorted) ==
    IF sorted = <<>> THEN <<pair>>
    ELSE IF KeyRank(pair[1]) <= KeyRank(Head(sorted)[1])
         THEN <<pair>> \o sorted
         ELSE <<Head(sorted)>> \o InsertSorted(pair, Tail(sorted))

\* a dict is the sequence of its (key, value) pairs in insertion order
RECURSIVE SortKeys(_)
SortKeys(dict) ==
    IF dict = <<>> THEN <<>>
    ELSE InsertSorted(Head(dict), SortKeys(Tail(dict)))

\* the keys whose value is a list of dicts
ListKeys == {"items", "audit_logs"}

\* a serialization that keeps the insertion order (no sort_keys)
json_dumps_unsorted(data) == data

\* json.dumps(data, sort_keys=True): nested dicts are sorted as well
json_dumps(data) ==
    LET top == SortKeys(data)
    IN [i \in DOMAIN top |->
          IF top[i][1] \in ListKeys
             THEN <<top[i][1], [j \in DOMAIN top[i][2] |-> SortKeys(top[i][2][j])]>>
             ELSE top[i]]

generate_etag(data) == <<"W/", json_dumps(data)>>

\* a validator no representation has
OtherTag == <<"W/", <<>>>>

----------------------------------------------------------------------------
(* Helpers shared by the handlers *)

\* ensure_email_unique: TRUE when the check raises 409
EmailTaken(email, user_id) ==
    \E existing_id \in users_store :
        lower(user_obj[existing_id].email) = lower(email)

EmailConflict(email, user_id) ==
    \E existing_id \in users_store :
        /\ lower(user_obj[existing_id].email) = lower(email)
        /\ existing_id # user_id

\* ensure_sku_unique: TRUE when the check raises 409
SkuConflict(sku, product_id) ==
    \E existing_id \in DOMAIN products_store :
        /\ upper(products_store[existing_id].sku) = upper(sku)
        /\ existing_id # product_id

\* UserOut(**user).model_dump(): the fields of UserBase, then id
UserOut(id, user) ==
    << <<"email", user.email>>, <<"name", user.name>>, <<"id", id>> >>

\* ProductOut(**{**product, "price": quantize_price(product["price"])})
ProductOut(product) ==
    << <<"sku", product.sku>>, <<"price", quantize_price(product.price)>>,
       <<"id", product.id>> >>

\* products_store[product_id] = product
PutProduct(store, product) ==
    [id \in DOMAIN store \cup {product.id} |->
        IF id = product.id THEN product ELSE store[id]]

\* products_store.pop(product_id, None)
PopProduct(store, product_id) ==
    [id \in DOMAIN store \ {product_id} |-> store[id]]

Range(seq) == {seq[i] : i \in DOMAIN seq}

\* the user and order objects some request still refers to
LiveRefs(rf, lc, p) ==
    UNION {{rf[q]} \cup Range(lc[q].snap) : q \in {x \in Reqs : p[x] # "idle"}}

\* objects no store and no request refers to are reclaimed
Reclaim(objs, store, refs, nil) ==
    [id \in DOMAIN objs |->
        IF id \in store \/ id \in refs THEN objs[id] ELSE nil]

\* users_lock, products_lock, orders_lock
Locks == {"users_lock", "products_lock", "orders_lock"}

\* a block that would keep its lock when it is left
KeepLocks(r) == lock_owner

\* leaving a `with` block, at its end or by an exception, releases its lock
Release(r) == [k \in Locks |-> IF lock_owner[k] = r THEN "none" ELSE lock_owner[k]]

Respond(r, status, body, etag) ==
    /\ pc' = [pc EXCEPT ![r] = "done"]
    /\ resp' = [resp EXCEPT ![r] = [status |-> status, body |-> body, etag |-> etag]]
    /\ lock_owner' = Release(r)
    /\ UNCHANGED side_vars

Problem(r, status) == Respond(r, status, <<>>, <<>>)

Goto(r, label) ==
    /\ pc' = [pc EXCEPT ![r] = label]
    /\ lock_owner' = Release(r)
    /\ UNCHANGED <<resp, side_vars>>

\* history variable: did this step of r change a store
Track(r) == dirty' = [dirty EXCEPT ![r] = @ \/ (mem_vars' # mem_vars)]

users_vars == <<users_store, user_obj>>
products_vars == <<products_store, product_id_sequence>>
orders_vars == <<orders_store, order_obj, clock>>
db_order_vars == <<db_orders, db_items, db_audit>>
db_vars == <<db_users, db_order_vars>>

----------------------------------------------------------------------------
(* POST /users *)

create_user_check(r, raw, name) ==
    /\ pc[r] = "idle"
    /\ arg' = [arg EXCEPT ![r] = [NoArg EXCEPT !.op = "create_user",
                                  !.email = EmailStr(raw), !.name = name]]
    /\ IF EmailConflict(EmailStr(raw), NoId)
          THEN Problem(r, 409)
          ELSE Goto(r, "cu_write")
    /\ UNCHANGED <<mem_vars, ref, loc, held>>
    /\ Track(r)

create_user_write(r) ==
    /\ pc[r] = "cu_write"
    /\ {id \in UserIds : user_obj[id] = NoUser} # {}
    /\ LET id == CHOOSE x \in UserIds : user_obj[x] = NoUser
           new_user == [email |-> arg[r].email, name |-> arg[r].name]
       IN /\ user_obj' = [user_obj EXCEPT ![id] = new_user]
          /\ users_store' = users_store \cup {id}
          /\ Respond(r, 201, UserOut(id, new_user), <<>>)
    /\ UNCHANGED <<db_vars, products_vars, orders_vars, arg, ref, loc, held>>
    /\ Track(r)

----------------------------------------------------------------------------
(* PATCH /users/{user_id} *)

update_user_exists(r, uid, raw, name) ==
    /\ pc[r] = "idle"
    /\ arg' = [arg EXCEPT ![r] = [NoArg EXCEPT !.op = "update_user", !.uid = uid,
                  !.email = IF raw = Unset THEN Unset ELSE EmailStr(raw),
                  !.name = name]]
    /\ IF uid \in users_store
          THEN /\ ref' = [ref EXCEPT ![r] = uid]
               /\ Goto(r, IF raw = Unset THEN "uu_apply" ELSE "uu_check")
          ELSE /\ Problem(r, 404)
               /\ UNCHANGED ref
    /\ UNCHANGED <<mem_vars, loc, held>>
    /\ Track(r)

update_user_check(r) ==
    /\ pc[r] = "uu_check"
    /\ IF EmailConflict(arg[r].email, ref[r])
          THEN Problem(r, 409)
          ELSE Goto(r, "uu_apply")
    /\ UNCHANGED <<mem_vars, arg, ref, loc, held>>
    /\ Track(r)

\* stored.update(update_data)
DictUpdate(stored, update_data) ==
    [email |-> IF update_data.email = Unset THEN stored.email ELSE update_data.email,
     name |-> IF update_data.name = Unset THEN stored.name ELSE update_data.name]

\* the shared dict object changes in place, outside the lock
update_user_apply(r) ==
    /\ pc[r] = "uu_apply"
    /\ user_obj' = [user_obj EXCEPT ![ref[r]] = DictUpdate(@, arg[r])]
    /\ Goto(r, "uu_write")
    /\ UNCHANGED <<db_vars, users_store, products_vars, orders_vars, arg, ref, loc, held>>
    /\ Track(r)

update_user_write(r) ==
    /\ pc[r] = "uu_write"
    /\ users_store' = users_store \cup {ref[r]}
    /\ Respond(r, 200, UserOut(ref[r], user_obj[ref[r]]), <<>>)
    /\ UNCHANGED <<db_vars, user_obj, products_vars, orders_vars, arg, ref, loc, held>>
    /\ Track(r)

----------------------------------------------------------------------------
(* DELETE /users/{user_id} *)

delete_user_exists(r, uid) ==
    /\ pc[r] = "idle"
    /\ arg' = [arg EXCEPT ![r] = [NoArg EXCEPT !.op = "delete_user", !.uid = uid]]
    /\ IF uid \in users_store THEN Goto(r, "du_pop") ELSE Problem(r, 404)
    /\ UNCHANGED <<mem_vars, ref, loc, held>>
    /\ Track(r)

delete_user_pop(r) ==
    /\ pc[r] = "du_pop"
    /\ users_store' = users_store \ {arg[r].uid}
    /\ user_obj' = Reclaim(user_obj, users_store', LiveRefs(ref, loc, pc), NoUser)
    /\ Respond(r, 204, <<>>, <<>>)
    /\ UNCHANGED <<db_vars, products_vars, orders_vars, arg, ref, loc, held>>
    /\ Track(r)

----------------------------------------------------------------------------
(* POST /products *)

\* a create_product that takes its identifier before the uniqueness check
create_product_id_first(r, raw_sku, raw_price) ==
    /\ pc[r] = "idle"
    /\ product_id_sequence <= MaxProductId
    /\ arg' = [arg EXCEPT ![r] = [NoArg EXCEPT !.op = "create_product",
                                  !.sku = raw_sku, !.price = raw_price]]
    /\ product_id_sequence' = product_id_sequence + 1
    /\ IF ~ SkuPattern(raw_sku) \/ ~ DecimalPlaces2(raw_price)
          THEN Problem(r, 422)
          ELSE IF SkuConflict(raw_sku, 0)
                  THEN Problem(r, 409)
                  ELSE Goto(r, "cp_write")
    /\ UNCHANGED <<db_vars, users_vars, products_store, orders_vars, ref, loc, held>>
    /\ Track(r)

create_product_check(r, raw_sku, raw_price) ==
    /\ pc[r] = "idle"
    /\ arg' = [arg EXCEPT ![r] = [NoArg EXCEPT !.op = "create_product",
                                  !.sku = raw_sku, !.price = raw_price]]
    /\ IF ~ SkuPattern(raw_sku) \/ ~ DecimalPlaces2(raw_price)
          THEN Problem(r, 422)
          ELSE IF SkuConflict(raw_sku, 0)
                  THEN Problem(r, 409)
                  ELSE Goto(r, "cp_write")
    /\ UNCHANGED <<mem_vars, ref, loc, held>>
    /\ Track(r)

\* a write that takes the lowest identifier no stored product has
create_product_write_lowest(r) ==
    /\ pc[r] = "cp_write"
    /\ product_id_sequence <= MaxProductId
    /\ LET product_id == CHOOSE id \in 1..product_id_sequence :
                             /\ id \notin DOMAIN products_store
                             /\ \A x \in 1..(id - 1) : x \in DOMAIN products_store
           new_product == [id |-> product_id, sku |-> arg[r].sku, price |-> arg[r].price]
       IN /\ product_id_sequence' = product_id_sequence + 1
          /\ products_store' = PutProduct(products_store, new_product)
          /\ Respond(r, 201, ProductOut(new_product), <<>>)
    /\ UNCHANGED <<db_vars, users_vars, orders_vars, arg, ref, loc, held>>
    /\ Track(r)

create_product_write(r) ==
    /\ pc[r] = "cp_write"
    /\ product_id_sequence <= MaxProductId
    /\ LET product_id == product_id_sequence
           new_product == [id |-> product_id, sku |-> arg[r].sku, price |-> arg[r].price]
       IN /\ product_id_sequence' = product_id_sequence + 1
          /\ products_store' = PutProduct(products_store, new_product)
          /\ Respond(r, 201, ProductOut(new_product), <<>>)
    /\ UNCHANGED <<db_vars, users_vars, orders_vars, arg, ref, loc, held>>
    /\ Track(r)

----------------------------------------------------------------------------
(* PUT /products/{product_id} *)

replace_product_exists(r, pid, raw_sku, raw_price) ==
    /\ pc[r] = "idle"
    /\ arg' = [arg EXCEPT ![r] = [NoArg EXCEPT !.op = "replace_product", !.pid = pid,
                                  !.sku = raw_sku, !.price = raw_price]]
    /\ IF ~ SkuPattern(raw_sku) \/ ~ DecimalPlaces2(raw_price)
          THEN Problem(r, 422)
          ELSE IF pid \in DOMAIN products_store
                  THEN Goto(r, "rp_check")
                  ELSE Problem(r, 404)
    /\ UNCHANGED <<mem_vars, ref, loc, held>>
    /\ Track(r)

replace_product_check(r) ==
    /\ pc[r] = "rp_check"
    /\ IF SkuConflict(arg[r].sku, arg[r].pid)
          THEN Problem(r, 409)
          ELSE Goto(r, "rp_write")
    /\ UNCHANGED <<mem_vars, arg, ref, loc, held>>
    /\ Track(r)

replace_product_write(r) ==
    /\ pc[r] = "rp_write"
    /\ LET updated == [id |-> arg[r].pid, sku |-> arg[r].sku, price |-> arg[r].price]
       IN /\ products_store' = PutProduct(products_store, updated)
          /\ Respond(r, 200, ProductOut(updated), <<>>)
    /\ UNCHANGED <<db_vars, users_vars, product_id_sequence, orders_vars, arg, ref, loc, held>>
    /\ Track(r)

----------------------------------------------------------------------------
(* DELETE /products/{product_id} *)

delete_product_exists(r, pid) ==
    /\ pc[r] = "idle"
    /\ arg' = [arg EXCEPT ![r] = [NoArg EXCEPT !.op = "delete_product", !.pid = pid]]
    /\ IF pid \in DOMAIN products_store THEN Goto(r, "dp_pop") ELSE Problem(r, 404)
    /\ UNCHANGED <<mem_vars, ref, loc, held>>
    /\ Track(r)

delete_product_pop(r) ==
    /\ pc[r] = "dp_pop"
    /\ products_store' = PopProduct(products_store, arg[r].pid)
    /\ Respond(r, 204, <<>>, <<>>)
    /\ UNCHANGED <<db_vars, users_vars, product_id_sequence, orders_vars, arg, ref, loc, held>>
    /\ Track(r)

----------------------------------------------------------------------------
(* Conditional reads: the If-None-Match header is the sequence of the
   comma-separated candidates it lists; <<>> is a request without one. *)

\* the single-resource reads and the path parameter that names the resource
ReadOps == {"get_user", "get_product", "get_order", "db_get_user"}

ResourceId(a) ==
    CASE a.op = "get_product" -> a.pid
      [] a.op = "get_order" -> a.oid
      [] OTHER -> a.uid

\* a comparison that takes any header for a match
HeaderPresent(inm, etag) == inm # <<>>

\* request.headers.get("if-none-match") == etag: the whole header value
HeaderEquals(inm, etag) == inm = <<etag>>

\* a tail that answers from the tag last handed out for the resource
ConditionalResponseCached(r, payload) ==
    LET etag == IF held.kind = arg[r].op /\ held.id = ResourceId(arg[r])
                   THEN held.etag
                   ELSE generate_etag(payload)
    IN IF HeaderEquals(arg[r].inm, etag)
          THEN Respond(r, 304, <<>>, etag)
          ELSE Respond(r, 200, payload, etag)

\* the tail of get_user, get_product and get_order
ConditionalResponse(r, payload) ==
    LET etag == generate_etag(payload)
    IN IF HeaderEquals(arg[r].inm, etag)
          THEN Respond(r, 304, <<>>, etag)
          ELSE Respond(r, 200, payload, etag)

\* the headers a client sends to a resource: none, a validator no
\* representation has, the validator it kept from this resource, and lists
Headers(kind, id) ==
    {<<>>, <<OtherTag>>}
      \cup (IF held.kind = kind /\ held.id = id
               THEN {<<held.etag>>, <<OtherTag, held.etag>>}
               ELSE {})

----------------------------------------------------------------------------
(* GET /users/{user_id} *)

get_user_exists(r, uid, inm) ==
    /\ pc[r] = "idle"
    /\ arg' = [arg EXCEPT ![r] = [NoArg EXCEPT !.op = "get_user", !.uid = uid, !.inm = inm]]
    /\ IF uid \in users_store
          THEN /\ ref' = [ref EXCEPT ![r] = uid]
               /\ Goto(r, "gu_respond")
          ELSE /\ Problem(r, 404)
               /\ UNCHANGED ref
    /\ UNCHANGED <<mem_vars, loc, held>>
    /\ Track(r)

get_user_respond(r) ==
    /\ pc[r] = "gu_respond"
    /\ ConditionalResponse(r, UserOut(ref[r], user_obj[ref[r]]))
    /\ UNCHANGED <<mem_vars, arg, ref, loc, held>>
    /\ Track(r)

----------------------------------------------------------------------------
(* GET /products/{product_id} *)

get_product_exists(r, pid, inm) ==
    /\ pc[r] = "idle"
    /\ arg' = [arg EXCEPT ![r] = [NoArg EXCEPT !.op = "get_product", !.pid = pid, !.inm = inm]]
    /\ IF pid \in DOMAIN products_store
          THEN /\ loc' = [loc EXCEPT ![r].product = products_store[pid]]
               /\ Goto(r, "gp_respond")
          ELSE /\ Problem(r, 404)
               /\ UNCHANGED loc
    /\ UNCHANGED <<mem_vars, ref, held>>
    /\ Track(r)

get_product_respond(r) ==
    /\ pc[r] = "gp_respond"
    /\ ConditionalResponse(r, ProductOut(loc[r].product))
    /\ UNCHANGED <<mem_vars, arg, ref, loc, held>>
    /\ Track(r)

----------------------------------------------------------------------------
(* order_to_response, one lock-guarded lookup per step *)

\* OrderOut(...).model_dump()
OrderOut(id, order, total, items_out) ==
    << <<"id", id>>, <<"user_id", order.user_id>>, <<"status", order.status>>,
       <<"created_at", order.created_at>>,
       <<"payment_method", order.payment_method>>, <<"notes", order.notes>>,
       <<"total", total>>, <<"items", items_out>> >>

\* OrderItemOut(product_id=..., qty=..., line_total=...).model_dump()
OrderItemOut(product_id, qty, line_total) ==
    << <<"product_id", product_id>>, <<"qty", qty>>, <<"line_total", line_total>> >>

\* make_pagination_links: a link is the (page, page_size) it points to, <<>> is None
make_pagination_links(page, page_size, total) ==
    [self |-> <<page, page_size>>,
     next |-> IF page * page_size < total THEN <<page + 1, page_size>> ELSE <<>>,
     prev |-> IF page > 1 THEN <<page - 1, page_size>> ELSE <<>>]

\* XListResponse(items=..., page=..., page_size=..., total=..., _links=...)
ListResponse(items, page, page_size, total) ==
    [items |-> items, page |-> page, page_size |-> page_size, total |-> total,
     links |-> make_pagination_links(page, page_size, total)]

\* user = ensure_user_exists(order["user_id"])
order_to_response_user(r) ==
    /\ pc[r] = "otr_user"
    /\ IF order_obj[ref[r]].user_id \in users_store
          THEN /\ loc' = [loc EXCEPT ![r].i = 1, ![r].items_out = <<>>, ![r].total = 0]
               /\ Goto(r, "otr_item")
          ELSE /\ Problem(r, 404)
               /\ UNCHANGED loc
    /\ UNCHANGED <<mem_vars, arg, ref, held>>
    /\ Track(r)

\* a loop turn that prices a line with the price the product was seeded with
order_to_response_item_frozen(r) ==
    /\ pc[r] = "otr_item"
    /\ LET items == order_obj[ref[r]].items
           item == items[loc[r].i]
       IN IF item.product_id \in DOMAIN products_store
             THEN LET product == products_store[item.product_id]
                      price == IF product.id = 1 THEN 39900 ELSE 129990
                      line_total == quantize_price(price * item.qty)
                  IN /\ loc' = [loc EXCEPT
                            ![r].i = @ + 1,
                            ![r].total = @ + line_total,
                            ![r].items_out =
                                Append(@, OrderItemOut(product.id, item.qty, line_total))]
                     /\ Goto(r, IF loc[r].i < Len(items) THEN "otr_item" ELSE "otr_build")
             ELSE /\ Problem(r, 404)
                  /\ UNCHANGED loc
    /\ UNCHANGED <<mem_vars, arg, ref, held>>
    /\ Track(r)

\* a loop turn whose line total leaves the quantity out
order_to_response_item_unit(r) ==
    /\ pc[r] = "otr_item"
    /\ LET items == order_obj[ref[r]].items
           item == items[loc[r].i]
       IN IF item.product_id \in DOMAIN products_store
             THEN LET product == products_store[item.product_id]
                      line_total == quantize_price(product.price)
                  IN /\ loc' = [loc EXCEPT
                            ![r].i = @ + 1,
                            ![r].total = @ + line_total,
                            ![r].items_out =
                                Append(@, OrderItemOut(product.id, item.qty, line_total))]
                     /\ Goto(r, IF loc[r].i < Len(items) THEN "otr_item" ELSE "otr_build")
             ELSE /\ Problem(r, 404)
                  /\ UNCHANGED loc
    /\ UNCHANGED <<mem_vars, arg, ref, held>>
    /\ Track(r)

\* one turn of the loop over order["items"]
order_to_response_item(r) ==
    /\ pc[r] = "otr_item"
    /\ LET items == order_obj[ref[r]].items
           item == items[loc[r].i]
       IN IF item.product_id \in DOMAIN products_store
             THEN LET product == products_store[item.product_id]
                      price == quantize_price(product.price)
                      line_total == quantize_price(price * item.qty)
                  IN /\ loc' = [loc EXCEPT
                            ![r].i = @ + 1,
                            ![r].total = @ + line_total,
                            ![r].items_out =
                                Append(@, OrderItemOut(product.id, item.qty, line_total))]
                     /\ Goto(r, IF loc[r].i < Len(items) THEN "otr_item" ELSE "otr_build")
             ELSE /\ Problem(r, 404)
                  /\ UNCHANGED loc
    /\ UNCHANGED <<mem_vars, arg, ref, held>>
    /\ Track(r)

\* total = quantize_price(total); return OrderOut(...); then the caller's tail
order_to_response_build(r) ==
    /\ pc[r] = "otr_build"
    /\ LET payload == OrderOut(ref[r], order_obj[ref[r]],
                               quantize_price(loc[r].total), loc[r].items_out)
       IN CASE arg[r].op = "create_order" ->
                 /\ Respond(r, 201, payload, <<>>)
                 /\ UNCHANGED <<ref, loc>>
            [] arg[r].op = "update_order" ->
                 /\ Respond(r, 200, payload, <<>>)
                 /\ UNCHANGED <<ref, loc>>
            [] arg[r].op = "get_order" ->
                 /\ ConditionalResponse(r, payload)
                 /\ UNCHANGED <<ref, loc>>
            [] arg[r].op = "list_orders" ->
                 LET out == Append(loc[r].out, payload)
                 IN IF Len(out) < Len(loc[r].snap)
                       THEN /\ loc' = [loc EXCEPT ![r].out = out]
                            /\ ref' = [ref EXCEPT ![r] = loc[r].snap[Len(out) + 1]]
                            /\ Goto(r, "otr_user")
                       ELSE /\ loc' = [loc EXCEPT ![r].out = out]
                            /\ Respond(r, 200,
                                  ListResponse(out, arg[r].page, arg[r].page_size, loc[r].n),
                                  <<>>)
                            /\ UNCHANGED ref
    /\ UNCHANGED <<mem_vars, arg, held>>
    /\ Track(r)

\* order_to_response as a function of the stores: what one uninterrupted call
\* returns for the order with this id
RECURSIVE SumLines(_)
SumLines(lines) ==
    IF lines = <<>> THEN 0 ELSE Head(lines) + SumLines(Tail(lines))

LineTotal(item) ==
    quantize_price(quantize_price(products_store[item.product_id].price) * item.qty)

order_to_response(id) ==
    LET order == order_obj[id]
        lines == [k \in DOMAIN order.items |-> LineTotal(order.items[k])]
        items_out == [k \in DOMAIN order.items |->
                         OrderItemOut(products_store[order.items[k].product_id].id,
                                      order.items[k].qty, lines[k])]
    IN OrderOut(id, order, quantize_price(SumLines(lines)), items_out)

\* both ensure_user_exists and every ensure_product_exists of the call succeed
OrderResolves(id) ==
    /\ order_obj[id].user_id \in users_store
    /\ \A k \in DOMAIN order_obj[id].items :
          order_obj[id].items[k].product_id \in DOMAIN products_store

----------------------------------------------------------------------------
(* POST /orders *)

\* OrderCreate.ensure_unique_products
ensure_unique_products(items) ==
    \A i \in DOMAIN items, j \in DOMAIN items :
        i # j => items[i].product_id # items[j].product_id

create_order_user(r, uid, items, payment_method, notes) ==
    /\ pc[r] = "idle"
    /\ arg' = [arg EXCEPT ![r] = [NoArg EXCEPT !.op = "create_order", !.uid = uid,
                                  !.items = items, !.payment_method = payment_method,
                                  !.notes = notes]]
    /\ IF ~ ensure_unique_products(items)
          THEN /\ Problem(r, 422)
               /\ UNCHANGED loc
          ELSE IF uid \in users_store
                  THEN /\ loc' = [loc EXCEPT ![r].i = 1, ![r].items = <<>>]
                       /\ Goto(r, "co_item")
                  ELSE /\ Problem(r, 404)
                       /\ UNCHANGED loc
    /\ UNCHANGED <<mem_vars, ref, held>>
    /\ Track(r)

\* one turn of the loop over order.items
create_order_item(r) ==
    /\ pc[r] = "co_item"
    /\ LET item == arg[r].items[loc[r].i]
       IN IF item.product_id \in DOMAIN products_store
             THEN /\ loc' = [loc EXCEPT
                        ![r].i = @ + 1,
                        ![r].items = Append(@,
                            [product_id |-> products_store[item.product_id].id,
                             qty |-> item.qty])]
                  /\ Goto(r, IF loc[r].i < Len(arg[r].items) THEN "co_item" ELSE "co_insert")
             ELSE /\ Problem(r, 404)
                  /\ UNCHANGED loc
    /\ UNCHANGED <<mem_vars, arg, ref, held>>
    /\ Track(r)

create_order_insert(r) ==
    /\ pc[r] = "co_insert"
    /\ clock < MaxClock
    /\ {id \in OrderIds : order_obj[id] = NoOrder} # {}
    /\ LET id == CHOOSE x \in OrderIds : order_obj[x] = NoOrder
           new_order == [user_id |-> arg[r].uid, status |-> "new",
                         created_at |-> clock + 1,
                         payment_method |-> arg[r].payment_method,
                         notes |-> arg[r].notes, items |-> loc[r].items]
       IN /\ clock' = clock + 1
          /\ order_obj' = [order_obj EXCEPT ![id] = new_order]
          /\ orders_store' = orders_store \cup {id}
          /\ ref' = [ref EXCEPT ![r] = id]
    /\ Goto(r, "otr_user")
    /\ UNCHANGED <<db_vars, users_vars, products_vars, arg, loc, held>>
    /\ Track(r)

----------------------------------------------------------------------------
(* GET /orders/{order_id} *)

get_order_exists(r, oid, inm) ==
    /\ pc[r] = "idle"
    /\ arg' = [arg EXCEPT ![r] = [NoArg EXCEPT !.op = "get_order", !.oid = oid, !.inm = inm]]
    /\ IF oid \in orders_store
          THEN /\ ref' = [ref EXCEPT ![r] = oid]
               /\ Goto(r, "otr_user")
          ELSE /\ Problem(r, 404)
               /\ UNCHANGED ref
    /\ UNCHANGED <<mem_vars, loc, held>>
    /\ Track(r)

----------------------------------------------------------------------------
(* PATCH /orders/{order_id} *)

update_order_exists(r, oid, status) ==
    /\ pc[r] = "idle"
    /\ arg' = [arg EXCEPT ![r] = [NoArg EXCEPT !.op = "update_order", !.oid = oid,
                                  !.status = status]]
    /\ IF oid \in orders_store
          THEN /\ ref' = [ref EXCEPT ![r] = oid]
               /\ Goto(r, "uo_apply")
          ELSE /\ Problem(r, 404)
               /\ UNCHANGED ref
    /\ UNCHANGED <<mem_vars, loc, held>>
    /\ Track(r)

\* an update that rebuilds the order from the request and drops its lines
update_order_apply_rebuild(r) ==
    /\ pc[r] = "uo_apply"
    /\ order_obj' = [order_obj EXCEPT ![ref[r]].status = arg[r].status,
                                      ![ref[r]].items = <<>>]
    /\ Goto(r, "uo_write")
    /\ UNCHANGED <<db_vars, users_vars, products_vars, orders_store, clock, arg, ref, loc, held>>
    /\ Track(r)

\* order["status"] = status_enum.value, outside the lock
update_order_apply(r) ==
    /\ pc[r] = "uo_apply"
    /\ order_obj' = [order_obj EXCEPT ![ref[r]].status = arg[r].status]
    /\ Goto(r, "uo_write")
    /\ UNCHANGED <<db_vars, users_vars, products_vars, orders_store, clock, arg, ref, loc, held>>
    /\ Track(r)

update_order_write(r) ==
    /\ pc[r] = "uo_write"
    /\ orders_store' = orders_store \cup {ref[r]}
    /\ Goto(r, "otr_user")
    /\ UNCHANGED <<db_vars, users_vars, products_vars, order_obj, clock, arg, ref, loc, held>>
    /\ Track(r)

----------------------------------------------------------------------------
(* DELETE /orders/{order_id} *)

delete_order_exists(r, oid) ==
    /\ pc[r] = "idle"
    /\ arg' = [arg EXCEPT ![r] = [NoArg EXCEPT !.op = "delete_order", !.oid = oid]]
    /\ IF oid \in orders_store THEN Goto(r, "do_pop") ELSE Problem(r, 404)
    /\ UNCHANGED <<mem_vars, ref, loc, held>>
    /\ Track(r)

delete_order_pop(r) ==
    /\ pc[r] = "do_pop"
    /\ orders_store' = orders_store \ {arg[r].oid}
    /\ order_obj' = Reclaim(order_obj, orders_store', LiveRefs(ref, loc, pc), NoOrder)
    /\ Respond(r, 204, <<>>, <<>>)
    /\ UNCHANGED <<db_vars, users_vars, products_vars, clock, arg, ref, loc, held>>
    /\ Track(r)

----------------------------------------------------------------------------
(* GET /orders and GET /products *)

RECURSIVE SortedBy(_, _)
\* sorted(..., key=...): the elements of a finite set by ascending key[x]
SortedBy(set, key) ==
    IF set = {} THEN <<>>
    ELSE LET first == CHOOSE x \in set : \A y \in set : key[x] <= key[y]
         IN <<first>> \o SortedBy(set \ {first}, key)

\* users[start:end], a Python slice
Slice(seq, start, end) ==
    [k \in 1..((IF end < Len(seq) THEN end ELSE Len(seq)) - start) |-> seq[start + k]]

\* with orders_lock: orders = list(orders_store.values())
list_orders_snapshot(r, status_filter, page, page_size) ==
    /\ pc[r] = "idle"
    /\ arg' = [arg EXCEPT ![r] = [NoArg EXCEPT !.op = "list_orders",
                  !.status = status_filter, !.page = page, !.page_size = page_size]]
    /\ loc' = [loc EXCEPT
                  ![r].snap = SortedBy(orders_store,
                                       [o \in orders_store |-> order_obj[o].created_at]),
                  \* history: the field values of the collection at this moment
                  ![r].at_snapshot = [o \in orders_store |-> order_obj[o]]]
    /\ Goto(r, "lo_page")
    /\ UNCHANGED <<mem_vars, ref, held>>
    /\ Track(r)

\* the filters, the sort and the slice, on the dict objects of the snapshot
list_orders_page(r) ==
    /\ pc[r] = "lo_page"
    /\ LET snap == Range(loc[r].snap)
           orders == IF arg[r].status = Unset THEN snap
                     ELSE {o \in snap : order_obj[o].status = arg[r].status}
           sorted == SortedBy(orders, [o \in orders |-> 0 - order_obj[o].created_at])
           total == Len(sorted)
           start == (arg[r].page - 1) * arg[r].page_size
           paginated == Slice(sorted, start, start + arg[r].page_size)
       IN IF paginated = <<>>
             THEN /\ loc' = [loc EXCEPT ![r].snap = <<>>, ![r].n = total]
                  /\ Respond(r, 200,
                        ListResponse(<<>>, arg[r].page, arg[r].page_size, total), <<>>)
                  /\ UNCHANGED ref
             ELSE /\ loc' = [loc EXCEPT ![r].snap = paginated, ![r].n = total,
                                        ![r].out = <<>>]
                  /\ ref' = [ref EXCEPT ![r] = paginated[1]]
                  /\ Goto(r, "otr_user")
    /\ UNCHANGED <<mem_vars, arg, held>>
    /\ Track(r)

\* list_products: snapshot, sort by id, slice, ProductOut of each
list_products(r, page, page_size) ==
    /\ pc[r] = "idle"
    /\ arg' = [arg EXCEPT ![r] = [NoArg EXCEPT !.op = "list_products",
                  !.page = page, !.page_size = page_size]]
    /\ LET products == SortedBy(DOMAIN products_store, [id \in DOMAIN products_store |-> id])
           total == Len(products)
           start == (page - 1) * page_size
           paginated == Slice(products, start, start + page_size)
           items == [k \in DOMAIN paginated |-> ProductOut(products_store[paginated[k]])]
       IN /\ loc' = [loc EXCEPT ![r].n = total]
          /\ Respond(r, 200, ListResponse(items, page, page_size, total), <<>>)
    /\ UNCHANGED <<mem_vars, ref, held>>
    /\ Track(r)

----------------------------------------------------------------------------
(* The database-backed variant: the user routes of src/app/routers/users.py.
   A handler runs in one session and commits once; it is one step. *)

\* the audit log rows of a user, newest first; no user route writes them
AuditLogs(user_id) ==
    CASE user_id = "d1" -> << << <<"action", "order.created">> >> >>
      [] user_id = "d2" -> << << <<"action", "user.login">> >> >>
      [] OTHER -> <<>>

\* UserRead.model_validate(user)
UserRead(id, user) ==
    << <<"email", user.email>>, <<"full_name", user.full_name>>,
       <<"is_active", user.is_active>>, <<"id", id>>,
       <<"joined_at", user.joined_at>>, <<"updated_at", user.updated_at>> >>

\* UserDetail.model_validate(user) with the audit logs copied in
UserDetail(id, user) == Append(UserRead(id, user), <<"audit_logs", AuditLogs(id)>>)

\* _compute_etag: the digest of the key-sorted serialization
compute_etag(payload) == <<"W/", json_dumps(payload)>>

\* select(User).where(User.email == email, User.id != user_id).first()
SelectByEmail(email, user_id) ==
    {id \in DOMAIN db_users : db_users[id].email = email /\ id # user_id}

\* session.add(user); session.commit()
Commit(id, row) ==
    db_users' = [x \in DOMAIN db_users \cup {id} |-> IF x = id THEN row ELSE db_users[x]]

DbArg(op, uid, email, name, inm) ==
    [NoArg EXCEPT !.op = op, !.uid = uid, !.email = email, !.name = name, !.inm = inm]

db_create_user(r, raw, full_name) ==
    /\ pc[r] = "idle"
    /\ arg' = [arg EXCEPT ![r] = DbArg("db_create_user", NoId, EmailStr(raw), full_name, <<>>)]
    /\ IF SelectByEmail(EmailStr(raw), NoId) # {}
          THEN /\ Problem(r, 409)
               /\ UNCHANGED <<db_users, clock, ref>>
          ELSE /\ clock < MaxClock
               /\ DbUserIds \ DOMAIN db_users # {}
               /\ LET id == CHOOSE x \in DbUserIds : x \notin DOMAIN db_users
                      user == [email |-> EmailStr(raw), full_name |-> full_name,
                               is_active |-> TRUE,
                               joined_at |-> clock + 1, updated_at |-> clock + 1]
                  IN /\ Commit(id, user)
                     /\ ref' = [ref EXCEPT ![r] = id]
                     /\ Respond(r, 201, UserRead(id, user), compute_etag(UserRead(id, user)))
               /\ clock' = clock + 1
    /\ UNCHANGED <<users_vars, products_vars, orders_store, order_obj, db_order_vars,
                   loc, held>>
    /\ Track(r)

db_replace_user(r, user_id, raw, full_name) ==
    /\ pc[r] = "idle"
    /\ arg' = [arg EXCEPT ![r] = DbArg("db_replace_user", user_id, EmailStr(raw), full_name, <<>>)]
    /\ IF user_id \notin DOMAIN db_users
          THEN /\ Problem(r, 404)
               /\ UNCHANGED <<db_users, clock>>
          ELSE IF /\ db_users[user_id].email # EmailStr(raw)
                  /\ SelectByEmail(EmailStr(raw), user_id) # {}
                  THEN /\ Problem(r, 409)
                       /\ UNCHANGED <<db_users, clock>>
                  ELSE /\ clock < MaxClock
                       /\ LET user == [db_users[user_id] EXCEPT
                                          !.email = EmailStr(raw),
                                          !.full_name = full_name,
                                          !.is_active = TRUE,
                                          !.updated_at = clock + 1]
                          IN /\ Commit(user_id, user)
                             /\ Respond(r, 200, UserRead(user_id, user),
                                        compute_etag(UserRead(user_id, user)))
                       /\ clock' = clock + 1
    /\ UNCHANGED <<users_vars, products_vars, orders_store, order_obj, db_order_vars,
                   ref, loc, held>>
    /\ Track(r)

\* PATCH: raw and full_name are Unset when the body leaves them out
db_update_user(r, user_id, raw, full_name) ==
    /\ pc[r] = "idle"
    /\ LET email == IF raw = Unset THEN Unset ELSE EmailStr(raw)
       IN /\ arg' = [arg EXCEPT ![r] = DbArg("db_update_user", user_id, email, full_name, <<>>)]
          /\ IF user_id \notin DOMAIN db_users
                THEN /\ Problem(r, 404)
                     /\ UNCHANGED <<db_users, clock>>
                ELSE IF email # Unset /\ SelectByEmail(email, user_id) # {}
                        THEN /\ Problem(r, 409)
                             /\ UNCHANGED <<db_users, clock>>
                        ELSE /\ clock < MaxClock
                             /\ LET user == [db_users[user_id] EXCEPT
                                       !.email = IF email # Unset THEN email ELSE @,
                                       !.full_name = IF full_name # Unset THEN full_name ELSE @,
                                       !.updated_at = clock + 1]
                                IN /\ Commit(user_id, user)
                                   /\ Respond(r, 200, UserRead(user_id, user),
                                              compute_etag(UserRead(user_id, user)))
                             /\ clock' = clock + 1
    /\ UNCHANGED <<users_vars, products_vars, orders_store, order_obj, db_order_vars,
                   ref, loc, held>>
    /\ Track(r)

db_delete_user(r, user_id) ==
    /\ pc[r] = "idle"
    /\ arg' = [arg EXCEPT ![r] = DbArg("db_delete_user", user_id, Unset, Unset, <<>>)]
    /\ IF user_id \notin DOMAIN db_users
          THEN /\ Problem(r, 404)
               /\ UNCHANGED db_users
          ELSE /\ db_users' = [x \in DOMAIN db_users \ {user_id} |-> db_users[x]]
               /\ Respond(r, 204, <<>>, <<>>)
    /\ UNCHANGED <<users_vars, products_vars, orders_vars, db_order_vars, ref, loc, held>>
    /\ Track(r)

\* if_none_match.split(","), each candidate stripped
Candidates(inm) == Range(inm)

db_get_user(r, user_id, inm) ==
    /\ pc[r] = "idle"
    /\ arg' = [arg EXCEPT ![r] = DbArg("db_get_user", user_id, Unset, Unset, inm)]
    /\ IF user_id \notin DOMAIN db_users
          THEN Problem(r, 404)
          ELSE LET content == UserDetail(user_id, db_users[user_id])
                   etag == compute_etag(content)
               IN IF inm # <<>> /\ etag \in Candidates(inm)
                     THEN Respond(r, 304, <<>>, etag)
                     ELSE Respond(r, 200, content, etag)
    /\ UNCHANGED <<mem_vars, ref, loc, held>>
    /\ Track(r)

----------------------------------------------------------------------------
(* The order routes of the database-backed variant,
   src/app/routers/orders.py.  A handler runs in one session and commits
   once; it is one step.  The caller is an authorized principal. *)

DbOrderIds == {"a1", "a2", "a3", "a4", "a5"}
DbOrderStatus == {"pending", "processing", "shipped", "delivered", "cancelled"}

\* INVENTORY: sku -> (name, unit price)
INVENTORY ==
    [sku \in {"LPT-1000", "COB-1959", "ALG-0001"} |->
        CASE sku = "LPT-1000" -> [name |-> "Analytical Engine Manual", unit_price |-> 125500]
          [] sku = "COB-1959" -> [name |-> "COBOL Specification", unit_price |-> 89900]
          [] OTHER -> [name |-> "Algorithm Notes", unit_price |-> 21000]]

\* Decimal.quantize(Decimal("0.01")) under the default context: ROUND_HALF_EVEN
quantize(value) ==
    LET q == value \div 10
        rest == value % 10
    IN IF rest > 5 \/ (rest = 5 /\ q % 2 = 1) THEN (q + 1) * 10 ELSE q * 10

\* Counter(order_in.item_skus)
Counter(item_skus) ==
    [sku \in Range(item_skus) |-> Cardinality({i \in DOMAIN item_skus : item_skus[i] = sku})]

\* the sum of the values of a function with a finite domain
RECURSIVE SumOf(_)
SumOf(f) ==
    IF DOMAIN f = {} THEN 0
    ELSE LET x == CHOOSE y \in DOMAIN f : TRUE
         IN f[x] + SumOf([y \in DOMAIN f \ {x} |-> f[y]])

\* Item(order_id=..., sku=..., name=..., quantity=..., unit_price=...)
Item(order_id, sku, quantity) ==
    [order_id |-> order_id, sku |-> sku, name |-> INVENTORY[sku].name,
     quantity |-> quantity, unit_price |-> INVENTORY[sku].unit_price]

\* OrderRead.model_validate(order)
OrderRead(id, order) ==
    << <<"status", order.status>>, <<"total", order.total>>, <<"id", id>>,
       <<"user_id", order.user_id>>, <<"placed_at", order.placed_at>>,
       <<"updated_at", order.updated_at>> >>

DbOrderArg(op, uid, oid, item_skus, total, status) ==
    [NoArg EXCEPT !.op = op, !.uid = uid, !.oid = oid, !.items = item_skus,
                  !.total = total, !.status = status]

\* a total that counts every requested SKU once, however often it is listed
ComputedTotalOnce(item_skus) ==
    SumOf([sku \in Range(item_skus) |-> INVENTORY[sku].unit_price])

\* the total the loop over counts.items() adds up, before it is quantized
ComputedTotal(item_skus) ==
    SumOf([sku \in Range(item_skus) |->
              INVENTORY[sku].unit_price * Counter(item_skus)[sku]])

db_create_order(r, user_id, item_skus, total, order_status) ==
    /\ pc[r] = "idle"
    /\ arg' = [arg EXCEPT ![r] =
                  DbOrderArg("db_create_order", user_id, NoId, item_skus, total, order_status)]
    /\ IF user_id \notin DOMAIN db_users
          THEN /\ Problem(r, 404)
               /\ UNCHANGED <<db_order_vars, clock>>
          ELSE IF \E sku \in Range(item_skus) : sku \notin DOMAIN INVENTORY
                  THEN /\ Problem(r, 400)
                       /\ UNCHANGED <<db_order_vars, clock>>
                  ELSE IF quantize(ComputedTotal(item_skus)) # total
                          THEN /\ Problem(r, 400)
                               /\ UNCHANGED <<db_order_vars, clock>>
                          ELSE /\ clock < MaxClock
                               /\ DbOrderIds \ DOMAIN db_orders # {}
                               /\ LET id == CHOOSE x \in DbOrderIds : x \notin DOMAIN db_orders
                                      order == [user_id |-> user_id, status |-> order_status,
                                                total |-> quantize(ComputedTotal(item_skus)),
                                                placed_at |-> clock + 1,
                                                updated_at |-> clock + 1]
                                  IN /\ db_orders' = [x \in DOMAIN db_orders \cup {id} |->
                                                         IF x = id THEN order ELSE db_orders[x]]
                                     /\ db_items' = db_items \cup
                                           {Item(id, sku, Counter(item_skus)[sku]) :
                                               sku \in Range(item_skus)}
                                     /\ db_audit' = db_audit \cup
                                           {[user_id |-> user_id, order_id |-> id,
                                             action |-> "order.created",
                                             performed_at |-> clock + 1]}
                                     /\ Respond(r, 201, OrderRead(id, order),
                                                compute_etag(OrderRead(id, order)))
                               /\ clock' = clock + 1
    /\ UNCHANGED <<users_vars, products_vars, orders_store, order_obj, db_users,
                   ref, loc, held>>
    /\ Track(r)

\* PUT: order_status is Unset and total is 0 when the body leaves them out
db_replace_order(r, order_id, order_status, total) ==
    /\ pc[r] = "idle"
    /\ arg' = [arg EXCEPT ![r] =
                  DbOrderArg("db_replace_order", NoId, order_id, <<>>, total, order_status)]
    /\ IF order_id \notin DOMAIN db_orders
          THEN /\ Problem(r, 404)
               /\ UNCHANGED <<db_orders, clock>>
          ELSE /\ clock < MaxClock
               /\ LET order == [db_orders[order_id] EXCEPT
                                   !.status = IF order_status # Unset THEN order_status ELSE @,
                                   !.total = IF total # 0 THEN quantize(total) ELSE @,
                                   !.updated_at = clock + 1]
                  IN /\ db_orders' = [db_orders EXCEPT ![order_id] = order]
                     /\ Respond(r, 200, OrderRead(order_id, order),
                                compute_etag(OrderRead(order_id, order)))
               /\ clock' = clock + 1
    /\ UNCHANGED <<users_vars, products_vars, orders_store, order_obj, db_users,
                   db_items, db_audit, ref, loc, held>>
    /\ Track(r)

\* PATCH: the same statements as PUT
db_update_order(r, order_id, order_status, total) ==
    /\ pc[r] = "idle"
    /\ arg' = [arg EXCEPT ![r] =
                  DbOrderArg("db_update_order", NoId, order_id, <<>>, total, order_status)]
    /\ IF order_id \notin DOMAIN db_orders
          THEN /\ Problem(r, 404)
               /\ UNCHANGED <<db_orders, clock>>
          ELSE /\ clock < MaxClock
               /\ LET order == [db_orders[order_id] EXCEPT
                                   !.status = IF order_status # Unset THEN order_status ELSE @,
                                   !.total = IF total # 0 THEN quantize(total) ELSE @,
                                   !.updated_at = clock + 1]
                  IN /\ db_orders' = [db_orders EXCEPT ![order_id] = order]
                     /\ Respond(r, 200, OrderRead(order_id, order),
                                compute_etag(OrderRead(order_id, order)))
               /\ clock' = clock + 1
    /\ UNCHANGED <<users_vars, products_vars, orders_store, order_obj, db_users,
                   db_items, db_audit, ref, loc, held>>
    /\ Track(r)

\* session.delete(order); session.commit().  The relationships of Order carry
\* no delete cascade: the flush blanks order_id in the rows that refer to the
\* order, and item.order_id is NOT NULL, so the commit of an order that has
\* items either fails (raises = TRUE: rollback, unhandled, 500) or goes
\* through with the rows detached.
db_delete_order(r, order_id, raises) ==
    /\ pc[r] = "idle"
    /\ arg' = [arg EXCEPT ![r] =
                  DbOrderArg("db_delete_order", NoId, order_id, <<>>, 0, Unset)]
    /\ IF order_id \notin DOMAIN db_orders
          THEN /\ Problem(r, 404)
               /\ UNCHANGED db_order_vars
          ELSE IF raises /\ \E item \in db_items : item.order_id = order_id
                  THEN /\ Problem(r, 500)
                       /\ UNCHANGED db_order_vars
                  ELSE /\ db_orders' = [x \in DOMAIN db_orders \ {order_id} |-> db_orders[x]]
                       /\ db_items' = {IF item.order_id = order_id
                                          THEN [item EXCEPT !.order_id = NoId] ELSE item :
                                       item \in db_items}
                       /\ db_audit' = {IF row.order_id = order_id
                                          THEN [row EXCEPT !.order_id = NoId] ELSE row :
                                       row \in db_audit}
                       /\ Respond(r, 204, <<>>, <<>>)
    /\ UNCHANGED <<users_vars, products_vars, orders_vars, db_users, ref, loc, held>>
    /\ Track(r)

----------------------------------------------------------------------------
(* Write authentication: the dependency of a route runs before its handler.
   A status of 0 lets the request through. *)

\* settings.auth_token
auth_token == "demo-token"

\* require_bearer_token(credentials): HTTPBearer(auto_error=False) hands over
\* None when the header is missing or its scheme is not bearer
require_bearer_token(credentials) ==
    IF credentials = "none" THEN 401
    ELSE IF credentials # auth_token THEN 401
    ELSE 0

api_keys == {"service-key-1"}

\* _decode_token(token): jwt.decode accepts the tokens signed with SECRET_KEY
\* that have not expired; the scopes are those /token issued
decode_token(token) ==
    CASE token = "admin-jwt" ->
            [status |-> 0, scopes |-> {"users:write", "orders:write", "users:read"}]
      [] token = "reader-jwt" ->
            [status |-> 0, scopes |-> {"users:read", "orders:read"}]
      [] OTHER -> [status |-> 401, scopes |-> {}]

\* require_principal(required_scopes) -> dependency(token, api_key)
require_principal(required_scopes, token, api_key) ==
    IF api_key # "none"
       THEN IF api_key \notin api_keys THEN 401 ELSE 0
       ELSE IF token = "none"
               THEN 0
               ELSE IF decode_token(token).status # 0
                       THEN decode_token(token).status
                       ELSE IF required_scopes # {}
                               /\ ~(required_scopes \subseteq decode_token(token).scopes)
                               THEN 403
                               ELSE 0

require_write_principal(token, api_key) ==
    require_principal({"users:write"}, token, api_key)

require_order_write_principal(token, api_key) ==
    require_principal({"orders:write"}, token, api_key)

\* Depends(...): the handler runs only when the dependency raised nothing
Depends(r, op, status, handler) ==
    IF status = 0
       THEN handler
       ELSE /\ pc[r] = "idle"
            /\ arg' = [arg EXCEPT ![r] = [NoArg EXCEPT !.op = op]]
            /\ Problem(r, status)
            /\ UNCHANGED <<mem_vars, ref, loc, held>>
            /\ Track(r)

\* the client changes the headers it sends, between two requests
set_credentials(token, api_key) ==
    /\ \A r \in Reqs : pc[r] = "idle"
    /\ cred' = [token |-> token, api_key |-> api_key]
    /\ UNCHANGED <<mem_vars, req_vars, lock_owner, etag_calls, warm, calls>>

----------------------------------------------------------------------------
(* src/perfectapi/warmup.py: one process, one thread.  Time is counted in
   ticks of time.monotonic(); a readiness request takes at least one tick.
   The deployment answers 200 from the tick ready_at on and fails before. *)

\* the attributes parse_args sets: a positional argument keeps its name as given
NamespaceAttrs == {"base_url", "spec_path", "request_timeout", "warmup_timeout",
                   "poll_interval", "status_path", "schemathesis-args"}

\* python -m perfectapi.warmup: main(arguments)
main(timeout, poll_interval, ready_at, returncode) ==
    /\ warm.pc = "idle"
    /\ warm' = [NoWarm EXCEPT !.pc = "parse", !.entry = "main", !.timeout = timeout,
                              !.poll_interval = poll_interval, !.ready_at = ready_at,
                              !.returncode = returncode]
    /\ UNCHANGED <<mem_vars, req_vars, lock_owner, etag_calls, cred, calls>>

\* options = parse_cli_arguments(arguments): reads namespace.schemathesis_args
parse_cli_arguments ==
    /\ warm.pc = "parse"
    /\ IF "schemathesis_args" \in NamespaceAttrs
          THEN warm' = [warm EXCEPT !.pc = "loop", !.deadline = warm.now + warm.timeout]
          ELSE warm' = [warm EXCEPT !.pc = "ended", !.error = "AttributeError"]
    /\ UNCHANGED <<mem_vars, req_vars, lock_owner, etag_calls, cred, calls>>

\* a direct call of run_remote_schemathesis(...), up to deadline = ...
run_remote_schemathesis(timeout, poll_interval, ready_at, returncode) ==
    /\ warm.pc = "idle"
    /\ warm' = [NoWarm EXCEPT !.pc = "loop", !.entry = "run_remote_schemathesis",
                              !.timeout = timeout, !.deadline = warm.now + timeout,
                              !.poll_interval = poll_interval, !.ready_at = ready_at,
                              !.returncode = returncode]
    /\ UNCHANGED <<mem_vars, req_vars, lock_owner, etag_calls, cred, calls>>

\* a direct call of wait_for_service(...), up to deadline = ...
wait_for_service(timeout, poll_interval, ready_at) ==
    /\ warm.pc = "idle"
    /\ warm' = [NoWarm EXCEPT !.pc = "loop", !.entry = "wait_for_service",
                              !.timeout = timeout, !.deadline = warm.now + timeout,
                              !.poll_interval = poll_interval, !.ready_at = ready_at]
    /\ UNCHANGED <<mem_vars, req_vars, lock_owner, etag_calls, cred, calls>>

\* after a failed attempt: on to time.sleep
wait_for_service_poll_on(w) == [w EXCEPT !.pc = "sleep"]

\* after a 200: return
wait_for_service_stop(w) ==
    [w EXCEPT !.waited = "returned",
              !.pc = IF w.entry = "wait_for_service" THEN "ended" ELSE "run"]

\* while time.monotonic() < deadline: client.get(target_url), taking d ticks;
\* failure = 0 for an exception, else an unexpected status
wait_for_service_get(d, failure) ==
    /\ warm.pc = "loop"
    /\ warm.now < warm.deadline
    /\ LET status == IF warm.now + d >= warm.ready_at THEN 200 ELSE failure
           w == [warm EXCEPT !.now = @ + d,
                             !.log = Append(@, [at |-> warm.now, status |-> status])]
       IN warm' = IF status = 200 THEN wait_for_service_stop(w)
                                  ELSE wait_for_service_poll_on(w)
    /\ UNCHANGED <<mem_vars, req_vars, lock_owner, etag_calls, cred, calls>>

\* time.sleep(poll_interval)
wait_for_service_sleep ==
    /\ warm.pc = "sleep"
    /\ warm' = [warm EXCEPT !.pc = "loop", !.now = @ + warm.poll_interval]
    /\ UNCHANGED <<mem_vars, req_vars, lock_owner, etag_calls, cred, calls>>

\* raise ServiceUnavailableError: run_remote_schemathesis lets it pass, main
\* catches it and returns 1
wait_for_service_raise ==
    /\ warm.pc = "loop"
    /\ warm.now >= warm.deadline
    /\ warm' = [warm EXCEPT !.pc = "ended", !.waited = "raised",
                            !.error = IF warm.entry = "main"
                                         THEN "none" ELSE "ServiceUnavailableError",
                            !.result = IF warm.entry = "main" THEN 1 ELSE @]
    /\ UNCHANGED <<mem_vars, req_vars, lock_owner, etag_calls, cred, calls>>

\* completed = subprocess.run(command, check=False); return completed.returncode
subprocess_run ==
    /\ warm.pc = "run"
    /\ warm' = [warm EXCEPT !.pc = "ended", !.started = @ + 1,
                            !.result = warm.returncode]
    /\ UNCHANGED <<mem_vars, req_vars, lock_owner, etag_calls, cred, calls>>

----------------------------------------------------------------------------
(* The Schemathesis command line, src/perfectapi/warmup.py *)

\* str(request_timeout) of a float given in tenths
FloatStr(tenths) ==
    CASE tenths = 100 -> "10.0"
      [] tenths = 420 -> "42.0"
      [] OTHER -> "60.0"

\* _build_schemathesis_command(base_url=, spec_path=, request_timeout=, extra_args=)
build_schemathesis_command(base_url, spec_path, request_timeout, extra_args) ==
    <<"uvx", "schemathesis", "run", spec_path, "--base-url", base_url,
      "--request-timeout", FloatStr(request_timeout)>> \o extra_args

build_schemathesis_command_call(base_url, spec_path, request_timeout, extra_args) ==
    /\ Len(calls) < MaxCalls
    /\ calls' = Append(calls,
          [fn |-> "_build_schemathesis_command", base_url |-> base_url,
           spec_path |-> spec_path, request_timeout |-> request_timeout,
           extra_args |-> extra_args,
           out |-> build_schemathesis_command(base_url, spec_path,
                                              request_timeout, extra_args)])
    /\ UNCHANGED <<mem_vars, req_vars, lock_owner, etag_calls, cred, warm>>

----------------------------------------------------------------------------
(* The tiny utility API, src/perfectapi/app.py.  A str is a sequence of
   characters; a JSON body is a function on the keys it holds. *)

\* str.upper() character by character: a character may map to several
\* ("sz" stands for the sharp s)
upper_char(c) ==
    CASE c = "a" -> <<"A">>
      [] c = "b" -> <<"B">>
      [] c = "i" -> <<"I">>
      [] c = "sz" -> <<"S", "S">>
      [] OTHER -> <<c>>

RECURSIVE str_upper(_)
str_upper(message) ==
    IF message = <<>> THEN <<>>
    ELSE upper_char(Head(message)) \o str_upper(Tail(message))

\* message * 1
repeat_message_once(message, n) == message

\* message * payload.repeat
RECURSIVE repeat_message(_, _)
repeat_message(message, n) ==
    IF n <= 0 THEN <<>> ELSE message \o repeat_message(message, n - 1)

\* EchoRequest(**body): what pydantic raises a validation error for
EchoRequestInvalid(body) ==
    \/ "message" \notin DOMAIN body
    \/ Len(body.message) < 1
    \/ Len(body.message) > 1000
    \/ "repeat" \in DOMAIN body /\ (body.repeat < 1 \/ body.repeat > 5)

\* EchoRequest(**body) with the defaults filled in
EchoRequest(body) ==
    [message |-> body.message,
     repeat |-> IF "repeat" \in DOMAIN body THEN body.repeat ELSE 1,
     uppercase |-> IF "uppercase" \in DOMAIN body THEN body.uppercase ELSE FALSE]

\* POST /echo
echo(body) ==
    IF EchoRequestInvalid(body)
       THEN [status |-> 422]
       ELSE LET payload == EchoRequest(body)
                message == IF payload.uppercase THEN str_upper(payload.message)
                                                ELSE payload.message
                result == repeat_message(message, payload.repeat)
            IN [status |-> 200, result |-> result, length |-> Len(result),
                repeat |-> payload.repeat, uppercase |-> payload.uppercase]

echo_call(body) ==
    /\ Len(calls) < MaxCalls
    /\ calls' = Append(calls, [fn |-> "echo", body |-> body, out |-> echo(body)])
    /\ UNCHANGED <<mem_vars, req_vars, lock_owner, etag_calls, cred, warm>>

\* application.router.routes: the three routes of create_app and the
\* documentation routes FastAPI adds; a path_regex matches its own path only
Routes ==
    {[path |-> "/status", methods |-> {"GET"}],
     [path |-> "/echo", methods |-> {"POST"}],
     [path |-> "/inspect", methods |-> {"GET"}],
     [path |-> "/openapi.json", methods |-> {"GET", "HEAD"}]}

\* sorted() on method names
MethodOrder == <<"DELETE", "GET", "HEAD", "OPTIONS", "POST", "PUT", "TRACE">>

sorted(methods) ==
    LET kept == {i \in DOMAIN MethodOrder : MethodOrder[i] \in methods}
        nth(k) == CHOOSE i \in kept : Cardinality({j \in kept : j < i}) = k - 1
    IN [k \in 1..Cardinality(kept) |-> MethodOrder[nth(k)]]

\* the methods of the routes whose path_regex matches
route_methods(path) ==
    sorted(UNION {route.methods : route \in {x \in Routes : x.path = path}})

\* _allowed_methods(application, path)
allowed_methods(path) ==
    LET allowed == UNION {route.methods : route \in {x \in Routes : x.path = path}}
        with_head == IF "GET" \in allowed THEN allowed \cup {"HEAD"} ELSE allowed
    IN sorted(IF with_head # {} THEN with_head \cup {"OPTIONS"} ELSE with_head)

\* call_next(request): the router answers 404 for an unknown path, 405 with
\* the route's own methods for a known path and another method, and else runs
\* the handler, which answers 200 or, for a request it cannot validate, 422
call_next(method, path, valid) ==
    LET matching == {x \in Routes : x.path = path}
    IN IF matching = {}
          THEN [status_code |-> 404, headers |-> [content_type |-> "application/json"]]
          ELSE IF \A route \in matching : method \notin route.methods
                  THEN [status_code |-> 405,
                        headers |-> [content_type |-> "application/json",
                                     allow |-> sorted((CHOOSE x \in matching : TRUE).methods)]]
                  ELSE [status_code |-> IF valid THEN 200 ELSE 422,
                        headers |-> [content_type |-> "application/json"]]

\* EnsureAllowHeaderMiddleware.dispatch
dispatch(method, path, valid) ==
    LET response == call_next(method, path, valid)
    IN IF response.status_code = 405 /\ allowed_methods(path) # <<>>
             /\ response.headers.allow # allowed_methods(path)
          THEN [response EXCEPT !.headers.allow = allowed_methods(path)]
          ELSE response

dispatch_call(method, path, valid) ==
    /\ Len(calls) < MaxCalls
    /\ calls' = Append(calls,
          [fn |-> "dispatch", method |-> method, path |-> path,
           inner |-> call_next(method, path, valid),
           out |-> dispatch(method, path, valid)])
    /\ UNCHANGED <<mem_vars, req_vars, lock_owner, etag_calls, cred, warm>>

----------------------------------------------------------------------------
(* the response leaves; the request's frame is dropped *)

Drop(r) ==
    /\ pc[r] = "done"
    /\ pc' = [pc EXCEPT ![r] = "idle"]
    /\ arg' = [arg EXCEPT ![r] = NoArg]
    /\ ref' = [ref EXCEPT ![r] = NoId]
    /\ loc' = [loc EXCEPT ![r] = NoLoc]
    /\ resp' = [resp EXCEPT ![r] = NoResp]
    /\ dirty' = [dirty EXCEPT ![r] = FALSE]
    /\ user_obj' = Reclaim(user_obj, users_store, LiveRefs(ref', loc', pc'), NoUser)
    /\ order_obj' = Reclaim(order_obj, orders_store, LiveRefs(ref', loc', pc'), NoOrder)
    /\ UNCHANGED <<db_vars, users_store, products_vars, orders_store, clock, side_vars,
                   lock_owner>>

Finish(r) ==
    /\ Drop(r)
    /\ UNCHANGED held

\* the client keeps the validator and the body of a 200 response to a read
Keep(r) ==
    /\ arg[r].op \in ReadOps
    /\ resp[r].status = 200
    /\ held' = [kind |-> arg[r].op, id |-> ResourceId(arg[r]),
                etag |-> resp[r].etag, body |-> resp[r].body]
    /\ Drop(r)

----------------------------------------------------------------------------
(* startup_event: seed_users, seed_products, seed_orders *)

Init ==
    /\ users_store = {"u1", "u2"}
    /\ user_obj = [id \in UserIds |->
          CASE id = "u1" -> [email |-> "admin@example.com", name |-> "Admin User"]
            [] id = "u2" -> [email |-> "member@example.com", name |-> "Member User"]
            [] OTHER -> NoUser]
    /\ products_store = [id \in {1, 2} |->
          IF id = 1 THEN [id |-> 1, sku |-> "SKU-BOOK01", price |-> 39900]
                    ELSE [id |-> 2, sku |-> "SKU-DEV999", price |-> 129990]]
    /\ product_id_sequence = 3
    /\ orders_store = {"o1"}
    /\ order_obj = [id \in OrderIds |->
          IF id = "o1"
             THEN [user_id |-> "u1", status |-> "new", created_at |-> 0,
                   payment_method |-> "card", notes |-> "Initial seeded order.",
                   items |-> << [product_id |-> 1, qty |-> 1] >>]
             ELSE NoOrder]
    /\ clock = 0
    /\ pc = [r \in Reqs |-> "idle"]
    /\ arg = [r \in Reqs |-> NoArg]
    /\ ref = [r \in Reqs |-> NoId]
    /\ loc = [r \in Reqs |-> NoLoc]
    /\ resp = [r \in Reqs |-> NoResp]
    /\ dirty = [r \in Reqs |-> FALSE]
    /\ held = NoHeld
    /\ etag_calls = <<>>
    /\ cred = NoCred
    /\ warm = NoWarm
    /\ calls = <<>>
    /\ lock_owner = [k \in Locks |-> "none"]
    /\ db_users = [id \in {"d1", "d2", "d3"} |->
          [email |-> CASE id = "d1" -> "ada.lovelace@example.com"
                       [] id = "d2" -> "grace.hopper@example.com"
                       [] OTHER -> "george.boole@example.com",
           full_name |-> CASE id = "d1" -> "Ada Lovelace"
                           [] id = "d2" -> "Grace Hopper"
                           [] OTHER -> "George Boole",
           is_active |-> id # "d3", joined_at |-> 0, updated_at |-> 0]]
    /\ db_orders = [id \in {"a1", "a2", "a3"} |->
          CASE id = "a1" -> [user_id |-> "d1", status |-> "processing", total |-> 125500,
                             placed_at |-> 0, updated_at |-> 0]
            [] id = "a2" -> [user_id |-> "d2", status |-> "shipped", total |-> 89900,
                             placed_at |-> 0, updated_at |-> 0]
            [] OTHER -> [user_id |-> "d1", status |-> "pending", total |-> 42000,
                         placed_at |-> 0, updated_at |-> 0]]
    /\ db_items = {Item("a1", "LPT-1000", 1), Item("a2", "COB-1959", 1),
                   Item("a3", "ALG-0001", 2)}
    /\ db_audit = {[user_id |-> "d1", order_id |-> "a1", action |-> "order.created",
                    performed_at |-> 0],
                   [user_id |-> "d2", order_id |-> NoId, action |-> "user.login",
                    performed_at |-> 0]}

----------------------------------------------------------------------------
(* The user handlers under request-parallel scheduling *)

UserPatches == {<<raw, Unset>> : raw \in RawEmails} \cup {<<Unset, "Admin User">>}

NextUsers ==
    \E r \in Reqs :
        \/ \E raw \in RawEmails : create_user_check(r, raw, "Admin User")
        \/ create_user_write(r)
        \/ \E uid \in UserIds, b \in UserPatches : update_user_exists(r, uid, b[1], b[2])
        \/ update_user_check(r)
        \/ update_user_apply(r)
        \/ update_user_write(r)
        \/ \E uid \in UserIds : delete_user_exists(r, uid)
        \/ delete_user_pop(r)
        \/ Finish(r)

SpecUsers == Init /\ [][NextUsers]_vars

(* The product handlers under request-parallel scheduling *)

NextProducts ==
    \E r \in Reqs :
        \/ \E raw_sku \in RawSkus, raw_price \in {10000, 5005} :
              create_product_check(r, raw_sku, raw_price)
        \/ create_product_write(r)
        \/ \E pid \in ProductIds, raw_sku \in RawSkus :
              replace_product_exists(r, pid, raw_sku, 10000)
        \/ replace_product_check(r)
        \/ replace_product_write(r)
        \/ \E pid \in ProductIds : delete_product_exists(r, pid)
        \/ delete_product_pop(r)
        \/ Finish(r)

SpecProducts == Init /\ [][NextProducts]_vars

----------------------------------------------------------------------------
(* The write handlers of users and products, one request at a time *)

One == {"r1"}

NextWrites ==
    \E r \in One :
        \/ \E raw \in RawEmails : create_user_check(r, raw, "Admin User")
        \/ create_user_write(r)
        \/ \E uid \in UserIds, b \in UserPatches : update_user_exists(r, uid, b[1], b[2])
        \/ update_user_check(r)
        \/ update_user_apply(r)
        \/ update_user_write(r)
        \/ \E uid \in UserIds : delete_user_exists(r, uid)
        \/ delete_user_pop(r)
        \/ \E raw_sku \in RawSkus, raw_price \in RawPrices :
              create_product_check(r, raw_sku, raw_price)
        \/ create_product_write(r)
        \/ \E pid \in ProductIds, raw_sku \in RawSkus, raw_price \in RawPrices :
              replace_product_exists(r, pid, raw_sku, raw_price)
        \/ replace_product_check(r)
        \/ replace_product_write(r)
        \/ \E pid \in ProductIds : delete_product_exists(r, pid)
        \/ delete_product_pop(r)
        \/ Finish(r)

SpecWrites == Init /\ [][NextWrites]_vars

----------------------------------------------------------------------------
(* The user routes of the database-backed variant *)

NextDb ==
    \E r \in One :
        \/ \E raw \in DbRawEmails : db_create_user(r, raw, "Ada Lovelace")
        \/ \E uid \in DbUserIds, raw \in DbRawEmails : db_replace_user(r, uid, raw, "Renamed")
        \/ \E uid \in DbUserIds, raw \in DbRawEmails \cup {Unset}, name \in {Unset, "Renamed"} :
              db_update_user(r, uid, raw, name)
        \/ \E uid \in DbUserIds : db_delete_user(r, uid)
        \/ \E uid \in DbUserIds : \E inm \in Headers("db_get_user", uid) : db_get_user(r, uid, inm)
        \/ Finish(r)
        \/ Keep(r)

SpecDb == Init /\ [][NextDb]_vars

----------------------------------------------------------------------------
(* Conditional reads between writes, one request at a time *)

NextCond ==
    \E r \in One :
        \/ \E uid \in UserIds : \E inm \in Headers("get_user", uid) : get_user_exists(r, uid, inm)
        \/ get_user_respond(r)
        \/ \E pid \in ProductIds : \E inm \in Headers("get_product", pid) :
              get_product_exists(r, pid, inm)
        \/ get_product_respond(r)
        \/ \E oid \in OrderIds : \E inm \in Headers("get_order", oid) : get_order_exists(r, oid, inm)
        \/ order_to_response_user(r)
        \/ order_to_response_item(r)
        \/ order_to_response_build(r)
        \/ \E uid \in DbUserIds : \E inm \in Headers("db_get_user", uid) : db_get_user(r, uid, inm)
        \/ \E b \in UserPatches : update_user_exists(r, "u2", b[1], b[2])
        \/ update_user_check(r)
        \/ update_user_apply(r)
        \/ update_user_write(r)
        \/ \E raw_price \in {10000, 5010} : replace_product_exists(r, 1, "SKU-BOOK01", raw_price)
        \/ replace_product_check(r)
        \/ replace_product_write(r)
        \/ \E oid \in OrderIds, status \in {"new", "paid"} : update_order_exists(r, oid, status)
        \/ update_order_apply(r)
        \/ update_order_write(r)
        \/ db_update_user(r, "d1", Unset, "Renamed")
        \/ Finish(r)
        \/ Keep(r)

SpecCond == Init /\ [][NextCond]_vars

----------------------------------------------------------------------------
(* The ETag functions on their own: calls on response bodies whose keys were
   inserted in any order *)

\* every insertion order of the keys of a dict
Orderings(dict) ==
    {[i \in DOMAIN dict |-> dict[p[i]]] : p \in Permutations(DOMAIN dict)}

\* the first n keys of a dict
Truncate(dict, n) == [i \in 1..n |-> dict[i]]

SeedUser == [email |-> "admin@example.com", name |-> "Admin User"]
SeedRow == [email |-> "ada.lovelace@example.com", full_name |-> "Ada Lovelace",
            is_active |-> TRUE, joined_at |-> 0, updated_at |-> 0]

\* bodies handed to generate_etag: a user, and a line of an order
GenerateEtagInputs ==
    Orderings(UserOut("u1", SeedUser)) \cup Orderings(OrderItemOut(1, 2, 79800))

\* bodies handed to _compute_etag by the database-backed routes
ComputeEtagInputs ==
    Orderings(Truncate(UserRead("d1", SeedRow), 4))
      \cup {UserDetail("d1", SeedRow), UserRead("d1", SeedRow)}

generate_etag_call(data) ==
    /\ Len(etag_calls) < MaxCalls
    /\ etag_calls' = Append(etag_calls,
          [fn |-> "generate_etag", data |-> data, tag |-> generate_etag(data)])
    /\ UNCHANGED <<mem_vars, req_vars, lock_owner, cred, warm, calls>>

compute_etag_call(payload) ==
    /\ Len(etag_calls) < MaxCalls
    /\ etag_calls' = Append(etag_calls,
          [fn |-> "_compute_etag", data |-> payload, tag |-> compute_etag(payload)])
    /\ UNCHANGED <<mem_vars, req_vars, lock_owner, cred, warm, calls>>

NextEtag ==
    \/ \E data \in GenerateEtagInputs : generate_etag_call(data)
    \/ \E payload \in ComputeEtagInputs : compute_etag_call(payload)

SpecEtag == Init /\ [][NextEtag]_vars

----------------------------------------------------------------------------
(* Orders and the list endpoints, one request at a time *)

Line(product_id, qty) == [product_id |-> product_id, qty |-> qty]

\* bodies of POST /orders: one line, two lines, a product listed twice, a
\* product that does not exist
ItemLists ==
    {<<Line(1, qty)>> : qty \in 1..MaxQty}
      \cup {<<Line(1, MaxQty), Line(2, 1)>>, <<Line(1, 1), Line(1, 1)>>, <<Line(3, 1)>>}

\* payment_method and notes of a body of POST /orders; notes may be left out
Payments == {<<"card", Unset>>, <<"paypal", "Please deliver during business hours.">>}

NextOrders ==
    \E r \in One :
        \/ \E uid \in {"u1", "u3"}, items \in ItemLists, p \in Payments :
              create_order_user(r, uid, items, p[1], p[2])
        \/ create_order_item(r)
        \/ create_order_insert(r)
        \/ order_to_response_user(r)
        \/ order_to_response_item(r)
        \/ order_to_response_build(r)
        \/ \E oid \in OrderIds : get_order_exists(r, oid, <<>>)
        \/ \E oid \in OrderIds : update_order_exists(r, oid, "paid")
        \/ update_order_apply(r)
        \/ update_order_write(r)
        \/ \E oid \in OrderIds : delete_order_exists(r, oid)
        \/ delete_order_pop(r)
        \/ \E status_filter \in {Unset, "paid"}, page \in 1..MaxPage, page_size \in 1..MaxPageSize :
              list_orders_snapshot(r, status_filter, page, page_size)
        \/ list_orders_page(r)
        \/ \E page \in 1..MaxPage, page_size \in 1..MaxPageSize : list_products(r, page, page_size)
        \/ replace_product_exists(r, 1, "SKU-BOOK01", 10000)
        \/ replace_product_exists(r, 2, "SKU-DEV999", 5010)
        \/ replace_product_check(r)
        \/ replace_product_write(r)
        \/ delete_product_exists(r, 1)
        \/ delete_product_pop(r)
        \/ delete_user_exists(r, "u1")
        \/ delete_user_pop(r)
        \/ Finish(r)

SpecOrders == Init /\ [][NextOrders]_vars

----------------------------------------------------------------------------
\* C1: in every reachable state of the users collection, no two stored users
\* have e-mail addresses that are equal when compared case-insensitively.
C1_UniqueEmails ==
    \A a \in users_store, b \in users_store :
        a # b => lower(user_obj[a].email) # lower(user_obj[b].email)

\* C2: in every reachable state of the products collection, no two stored
\* products have SKUs that are equal when compared case-insensitively.
C2_UniqueSkus ==
    \A a \in DOMAIN products_store, b \in DOMAIN products_store :
        a # b => upper(products_store[a].sku) # upper(products_store[b].sku)

DbEmailOps == {"db_create_user", "db_replace_user", "db_update_user"}

\* the row a database request wrote or meant to write
DbTarget(r) == IF arg[r].op = "db_create_user" THEN ref[r] ELSE arg[r].uid

\* C3: in the database-backed variant, a create_user, replace_user or
\* update_user whose e-mail equals, letter case aside, the e-mail of another
\* existing user is answered 409 and changes no row.
C3_CaseVariantConflict ==
    \A r \in Reqs :
        ( /\ pc[r] = "done"
          /\ arg[r].op \in DbEmailOps
          /\ arg[r].email # Unset
          /\ arg[r].op # "db_create_user" => arg[r].uid \in DOMAIN db_users
          /\ \E other \in DOMAIN db_users \ {DbTarget(r)} :
                lower(db_users[other].email) = lower(arg[r].email) )
            => (resp[r].status = 409 /\ ~ dirty[r])

ConflictOps == {"create_user", "update_user", "create_product", "replace_product"}

\* C4: an in-memory create_user, update_user, create_product or replace_product
\* answered with 409 has left users, products, orders and the product id
\* counter as they were when the request arrived.
C4_ConflictChangesNothing ==
    \A r \in Reqs :
        (pc[r] = "done" /\ arg[r].op \in ConflictOps /\ resp[r].status = 409)
            => ~ dirty[r]

C4_Witness ==
    /\ \E r \in Reqs : pc[r] = "done" /\ arg[r].op = "create_product"
                           /\ resp[r].status = 409 /\ product_id_sequence > 3
    /\ Cardinality(users_store) = 3

\* the resource a read names is stored and can be represented
Resolves(a) ==
    CASE a.op = "get_user" -> a.uid \in users_store
      [] a.op = "get_product" -> a.pid \in DOMAIN products_store
      [] a.op = "get_order" -> a.oid \in orders_store /\ OrderResolves(a.oid)
      [] a.op = "db_get_user" -> a.uid \in DOMAIN db_users
      [] OTHER -> FALSE

\* its current representation and the tag of that representation
Representation(a) ==
    CASE a.op = "get_user" -> UserOut(a.uid, user_obj[a.uid])
      [] a.op = "get_product" -> ProductOut(products_store[a.pid])
      [] a.op = "get_order" -> order_to_response(a.oid)
      [] a.op = "db_get_user" -> UserDetail(a.uid, db_users[a.uid])

CurrentTag(a) ==
    IF a.op = "db_get_user" THEN compute_etag(Representation(a))
                            ELSE generate_etag(Representation(a))

\* a read that has been answered while the resource is as the read found it
Answered(r) == pc[r] = "done" /\ arg[r].op \in ReadOps /\ Resolves(arg[r])

C6_ListedTagNotModified ==
    \A r \in Reqs :
        (Answered(r) /\ Len(arg[r].inm) > 1 /\ CurrentTag(arg[r]) \in Range(arg[r].inm))
            => resp[r].status = 304

\* the read carries the validator the client kept from this resource
Revalidates(r) ==
    /\ Answered(r)
    /\ held.kind = arg[r].op
    /\ held.id = ResourceId(arg[r])
    /\ arg[r].inm = <<held.etag>>

SamePairs(d1, d2) == Range(d1) = Range(d2) /\ Len(d1) = Len(d2)

\* C7: an ETag function gives the same tag whenever it is called again on the
\* same body, and whenever it is called on a body that holds the same
\* key/value pairs inserted in another order.
C7_TagIgnoresKeyOrder ==
    \A i \in DOMAIN etag_calls, j \in DOMAIN etag_calls :
        ( /\ etag_calls[i].fn = etag_calls[j].fn
          /\ SamePairs(etag_calls[i].data, etag_calls[j].data) )
            => etag_calls[i].tag = etag_calls[j].tag

C7_Witness ==
    /\ Len(etag_calls) = 2
    /\ etag_calls[1].fn = "generate_etag"
    /\ etag_calls[2].fn = "generate_etag"
    /\ SamePairs(etag_calls[1].data, etag_calls[2].data)
    /\ etag_calls[1].data # etag_calls[2].data
    /\ etag_calls[1].tag = etag_calls[2].tag

\* dict[key] on a dict given as its (key, value) pairs
Get(dict, key) == (CHOOSE pair \in Range(dict) : pair[1] = key)[2]

ListOps == {"list_orders", "list_products"}

\* the sorted, filtered collection a list request pages through, as ids
Collection(a) ==
    IF a.op = "list_products"
       THEN SortedBy(DOMAIN products_store, [id \in DOMAIN products_store |-> id])
       ELSE LET orders == IF a.status = Unset THEN orders_store
                          ELSE {o \in orders_store : order_obj[o].status = a.status}
            IN SortedBy(orders, [o \in orders |-> 0 - order_obj[o].created_at])

ItemOf(a, id) ==
    IF a.op = "list_products" THEN ProductOut(products_store[id]) ELSE order_to_response(id)

Min(a, b) == IF a < b THEN a ELSE b
Max(a, b) == IF a > b THEN a ELSE b

\* C9: a list request for page p with page size s over a filtered, sorted
\* collection of N items succeeds and returns the items at positions
\* (p-1)*s+1 .. p*s of it, min(s, max(0, N-(p-1)*s)) of them, total N, a next
\* link to page p+1 exactly when p*s < N, a prev link to page p-1 exactly
\* when p > 1; beyond the last page the list is empty and the status is 200.
C9_Pagination ==
    \A r \in Reqs :
        (pc[r] = "done" /\ arg[r].op \in ListOps) =>
            LET p == arg[r].page
                s == arg[r].page_size
                all == Collection(arg[r])
                N == Len(all)
                count == Min(s, Max(0, N - (p - 1) * s))
            IN /\ resp[r].status = 200
               /\ Len(resp[r].body.items) = count
               /\ \A k \in 1..count :
                     resp[r].body.items[k] = ItemOf(arg[r], all[(p - 1) * s + k])
               /\ resp[r].body.total = N
               /\ resp[r].body.links.next = (IF p * s < N THEN <<p + 1, s>> ELSE <<>>)
               /\ resp[r].body.links.prev = (IF p > 1 THEN <<p - 1, s>> ELSE <<>>)

OrderOps == {"create_order", "get_order", "update_order", "list_orders"}

\* the orders a response returns
OrdersReturned(r) ==
    IF pc[r] = "done" /\ arg[r].op \in OrderOps /\ resp[r].status \in {200, 201}
       THEN IF arg[r].op = "list_orders" THEN Range(resp[r].body.items)
                                         ELSE {resp[r].body}
       ELSE {}

OrdersRead(r) ==
    IF arg[r].op \in {"get_order", "list_orders"} THEN OrdersReturned(r) ELSE {}

\* a step that changes the price of a stored product
PriceChange ==
    \E id \in DOMAIN products_store \cap DOMAIN products_store' :
        products_store'[id].price # products_store[id].price

----------------------------------------------------------------------------
(* The order routes of the database-backed variant *)

ItemSkus == {<<"ALG-0001">>, <<"ALG-0001", "ALG-0001">>,
             <<"ALG-0001", "COB-1959">>, <<"ALG-0001", "SKU-0000">>}
Totals == {21000, 42000, 110900, 21005}

NextDbOrders ==
    \E r \in One :
        \/ \E uid \in {"d1", "d4"}, item_skus \in ItemSkus, total \in Totals :
              db_create_order(r, uid, item_skus, total, "pending")
        \/ \E oid \in {"a1", "a4"}, st \in {Unset, "shipped"}, total \in {0, 42000, 21005} :
              db_replace_order(r, oid, st, total)
        \/ \E oid \in {"a3", "a4"}, st \in {Unset, "cancelled"}, total \in {0, 42000} :
              db_update_order(r, oid, st, total)
        \/ \E oid \in DbOrderIds, raises \in BOOLEAN : db_delete_order(r, oid, raises)
        \/ Finish(r)

SpecDbOrders == Init /\ [][NextDbOrders]_vars

\* the total of the item rows of an order: unit price times quantity
ItemsTotal(order_id) ==
    SumOf([item \in {x \in db_items : x.order_id = order_id} |->
              item.unit_price * item.quantity])

\* C12: database-backed variant.  After any sequence of create_order,
\* replace_order (PUT), update_order (PATCH) and delete_order, the total of
\* every stored order equals the sum over its items of unit price times
\* quantity.
C12_StoredTotalMatchesItems ==
    \A id \in DOMAIN db_orders : db_orders[id].total = ItemsTotal(id)

\* the inventory price of every entry of the requested list, added up
RECURSIVE ListPrice(_)
ListPrice(item_skus) ==
    IF item_skus = <<>> THEN 0
    ELSE INVENTORY[Head(item_skus)].unit_price + ListPrice(Tail(item_skus))

\* the request of slot r is a create_order the handler must refuse
Refused(a) ==
    \/ a.uid \notin DOMAIN db_users
    \/ \E sku \in Range(a.items) : sku \notin DOMAIN INVENTORY
    \/ ListPrice(a.items) # a.total

\* the rows one accepted create_order writes: one order, one item per distinct
\* SKU with the number of times it is listed as quantity, one audit row
Written(a) ==
    \E id \in DOMAIN db_orders' \ DOMAIN db_orders :
        /\ DOMAIN db_orders' = DOMAIN db_orders \cup {id}
        /\ \A x \in DOMAIN db_orders : db_orders'[x] = db_orders[x]
        /\ db_orders'[id].user_id = a.uid
        /\ db_orders'[id].total = a.total
        /\ db_items \subseteq db_items'
        /\ \A item \in db_items' \ db_items : item.order_id = id
        /\ \A sku \in Range(a.items) :
              Cardinality({item \in db_items' \ db_items : item.sku = sku}) = 1
        /\ \A item \in db_items' \ db_items :
              /\ item.sku \in Range(a.items)
              /\ item.quantity = Cardinality({i \in DOMAIN a.items : a.items[i] = item.sku})
              /\ item.unit_price = INVENTORY[item.sku].unit_price
        /\ db_audit \subseteq db_audit'
        /\ Cardinality(db_audit' \ db_audit) = 1
        /\ \A row \in db_audit' \ db_audit :
              row.order_id = id /\ row.user_id = a.uid /\ row.action = "order.created"

\* C13: database-backed create_order recomputes the total from the
\* inventory prices of the requested SKUs, a SKU listed k times counting as
\* quantity k, and compares it for exact equality with the client's total.
\* On a mismatch, an unknown SKU or an unknown user the request is a client
\* error and no Order, Item or AuditLog row is written; on a match exactly
\* one Order, one Item per distinct SKU and one AuditLog row are written
\* together.
C13_CreateOrderReconciles ==
    [][\A r \in Reqs :
          (pc[r] = "idle" /\ arg'[r].op = "db_create_order") =>
              IF Refused(arg'[r])
                 THEN /\ resp'[r].status \in 400..499
                      /\ UNCHANGED <<db_orders, db_items, db_audit>>
                 ELSE /\ resp'[r].status = 201
                      /\ Written(arg'[r])]_vars

\* an order for the same SKU twice, accepted at twice its price
C13_Witness ==
    \E r \in Reqs :
        /\ arg[r].op = "db_create_order"
        /\ arg[r].items = <<"ALG-0001", "ALG-0001">>
        /\ arg[r].total = 42000
        /\ resp[r].status = 201
        /\ \E item \in db_items : item.sku = "ALG-0001" /\ item.quantity = 2 /\ item.order_id = "a4"

----------------------------------------------------------------------------
(* POST /orders beside DELETE /users and DELETE /products, request-parallel *)

NextOrderRace ==
    \E r \in Reqs :
        \/ \E uid \in {"u1", "u3"}, items \in {<<Line(1, 1)>>, <<Line(2, 1), Line(3, 1)>>} :
              create_order_user(r, uid, items, "card", Unset)
        \/ create_order_item(r)
        \/ create_order_insert(r)
        \/ order_to_response_user(r)
        \/ order_to_response_item(r)
        \/ order_to_response_build(r)
        \/ delete_user_exists(r, "u1")
        \/ delete_user_pop(r)
        \/ delete_product_exists(r, 1)
        \/ delete_product_pop(r)
        \/ Finish(r)

SpecOrderRace == Init /\ [][NextOrderRace]_vars

\* C14: an in-memory create_order that ends with NotFound leaves the orders
\* collection exactly as it was before the request, for every interleaving
\* with concurrent delete_user and delete_product requests, a delete that
\* lands between the reference checks, the insertion and the building of the
\* response included.
C14_NotFoundLeavesOrders ==
    \A r \in Reqs :
        (pc[r] = "done" /\ arg[r].op = "create_order" /\ resp[r].status = 404)
            => ~ dirty[r]

\* the operations that end by building the representation of a stored order
OrderReads == {"get_order", "list_orders", "update_order"}

\* C15: when a stored order refers to a user or product that no longer
\* exists at read time, reading it (get_order, list_orders, the response of
\* update_order) is reported as a server fault, status 5xx, not as a client
\* error such as 404, and the order is not silently dropped from the result.
C15_DanglingReadIsServerFault ==
    \A r \in Reqs :
        (/\ pc[r] = "done"
         /\ arg[r].op \in OrderReads
         /\ ref[r] \in orders_store
         /\ ~ OrderResolves(ref[r]))
            => resp[r].status \in 500..599

\* C16: in the in-memory variant, in every reachable state, the user_id of
\* every stored order is a user of the users collection and the product_id of
\* every item of it is a product of the products collection.
C16_ReferencesResolve ==
    \A id \in orders_store : OrderResolves(id)

----------------------------------------------------------------------------
(* PATCH of the status of an order, both variants *)

NextStatus ==
    \E r \in One :
        \/ \E oid \in OrderIds, status \in OrderStatus : update_order_exists(r, oid, status)
        \/ update_order_apply(r)
        \/ update_order_write(r)
        \/ order_to_response_user(r)
        \/ order_to_response_item(r)
        \/ order_to_response_build(r)
        \/ delete_user_exists(r, "u1")
        \/ delete_user_pop(r)
        \/ \E oid \in DbOrderIds, status \in DbOrderStatus \cup {Unset} :
              db_update_order(r, oid, status, 0)
        \/ Finish(r)

SpecStatus == Init /\ [][NextStatus]_vars

\* C17: there is no transition graph on the status of an order.  For an
\* existing order in any status X and any requested status Y, Y = X and
\* backward moves such as shipped to new included, the update succeeds and
\* the status of the order is Y afterwards.
C17_AnyStatusTransition ==
    \A r \in Reqs :
        /\ (pc[r] = "done" /\ arg[r].op = "update_order" /\ ref[r] \in OrderIds) =>
              /\ resp[r].status = 200
              /\ order_obj[ref[r]].status = arg[r].status
              /\ Get(resp[r].body, "status") = arg[r].status
        /\ (/\ pc[r] = "done"
            /\ arg[r].op = "db_update_order"
            /\ arg[r].oid \in DOMAIN db_orders
            /\ arg[r].status # Unset) =>
              /\ resp[r].status = 200
              /\ db_orders[arg[r].oid].status = arg[r].status
              /\ Get(resp[r].body, "status") = arg[r].status

\* the request of slot r is an update_order of this order and takes the step
UpdateStep(r, id) ==
    /\ arg[r].op = "update_order"
    /\ arg[r].oid = id
    /\ pc[r] # "idle"
    /\ pc'[r] # pc[r]

\* C18: in the in-memory variant the items of an order are frozen at
\* creation.  update_order changes only the status of the order it names:
\* id, user_id, created_at, payment_method, notes and the item list stay as
\* they are, every other order stays as it is, and no other operation
\* changes a field of a stored order; it can only delete the order.
C18_UpdateChangesStatusOnly ==
    [][\A id \in orders_store \cap orders_store' :
          \/ order_obj'[id] = order_obj[id]
          \/ \E r \in Reqs :
                /\ UpdateStep(r, id)
                /\ order_obj'[id] = [order_obj[id] EXCEPT !.status = arg[r].status]]_vars

\* the seeded order after a PATCH to paid, beside an order created later
C18_Witness ==
    /\ orders_store = {"o1", "o2"}
    /\ order_obj["o1"] = [user_id |-> "u1", status |-> "paid", created_at |-> 0,
                          payment_method |-> "card", notes |-> "Initial seeded order.",
                          items |-> <<Line(1, 1)>>]
    /\ order_obj["o2"].status = "new"
    /\ \E r \in Reqs : pc[r] = "done" /\ arg[r].op = "update_order" /\ resp[r].status = 200

----------------------------------------------------------------------------
(* Lock discipline of the in-memory variant *)

\* the lock of the `with` block the step at a label runs in
LockHeld(label) ==
    CASE label \in {"cu_write", "uu_check", "uu_write", "du_pop", "otr_user"} -> "users_lock"
      [] label \in {"cp_write", "rp_check", "rp_write", "dp_pop", "co_item", "otr_item"}
            -> "products_lock"
      [] label \in {"co_insert", "uo_write", "do_pop"} -> "orders_lock"
      [] OTHER -> "none"

\* a request takes a step inside the `with` block of this lock
StepUnder(lock) == \E r \in Reqs : pc'[r] # pc[r] /\ LockHeld(pc[r]) = lock

\* the step changes the users collection or a user stored in it
UsersChange ==
    \/ users_store' # users_store
    \/ \E id \in users_store \cap users_store' : user_obj'[id] # user_obj[id]

\* the step changes the orders collection or an order stored in it
OrdersChange ==
    \/ orders_store' # orders_store
    \/ \E id \in orders_store \cap orders_store' : order_obj'[id] # order_obj[id]

\* C19: in the in-memory variant every step that changes a collection or an
\* entity stored in it (insert, field update, replacement, removal) runs
\* while the handler holds the lock of that collection; in particular the
\* field changes of update_user and update_order to a stored entity happen
\* inside the lock.
C19_ChangesUnderLock ==
    [][/\ UsersChange => StepUnder("users_lock")
       /\ products_store' # products_store => StepUnder("products_lock")
       /\ OrdersChange => StepUnder("orders_lock")]_vars

----------------------------------------------------------------------------
(* GET /orders beside PATCH /orders and PUT /products, request-parallel *)

NextListRace ==
    \E r \in Reqs :
        \/ list_orders_snapshot(r, Unset, 1, MaxPageSize)
        \/ list_orders_page(r)
        \/ order_to_response_user(r)
        \/ order_to_response_item(r)
        \/ order_to_response_build(r)
        \/ \E status \in {"paid", "shipped"} : update_order_exists(r, "o1", status)
        \/ update_order_apply(r)
        \/ update_order_write(r)
        \/ replace_product_exists(r, 1, "SKU-BOOK01", 10000)
        \/ replace_product_check(r)
        \/ replace_product_write(r)
        \/ Finish(r)

SpecListRace == Init /\ [][NextListRace]_vars

\* the fields of an order that the orders collection holds
Stored(order) ==
    << order.user_id, order.status, order.created_at, order.payment_method,
       order.notes, [k \in DOMAIN order.items |-> order.items[k].product_id],
       [k \in DOMAIN order.items |-> order.items[k].qty] >>

\* the same fields, as an item of a list response reports them
Reported(item) ==
    << Get(item, "user_id"), Get(item, "status"), Get(item, "created_at"),
       Get(item, "payment_method"), Get(item, "notes"),
       [k \in DOMAIN Get(item, "items") |-> Get(Get(item, "items")[k], "product_id")],
       [k \in DOMAIN Get(item, "items") |-> Get(Get(item, "items")[k], "qty")] >>

\* C20: in the in-memory variant the sequence a list operation takes under
\* the lock is a point-in-time copy: the items and the field values a list
\* response returns are those the collection held when the snapshot was
\* taken, even when update_user, update_order or replace_product requests
\* run between the snapshot and the construction of the response.
C20_ListIsPointInTime ==
    \A r \in Reqs :
        (pc[r] = "done" /\ arg[r].op = "list_orders" /\ resp[r].status = 200) =>
            \A k \in DOMAIN resp[r].body.items :
                LET item == resp[r].body.items[k]
                IN /\ Get(item, "id") \in DOMAIN loc[r].at_snapshot
                   /\ Reported(item) = Stored(loc[r].at_snapshot[Get(item, "id")])

----------------------------------------------------------------------------
(* Write authentication of both variants *)

Tokens == {"none", "demo-token", "wrong-token", "admin-jwt", "reader-jwt"}
ApiKeys == {"none", "service-key-1", "wrong-key"}

NextAuth ==
    \/ \E token \in Tokens, api_key \in ApiKeys : set_credentials(token, api_key)
    \/ \E r \in One :
        \/ \E raw \in {"new@example.com", "admin@example.com"} :
              Depends(r, "create_user", require_bearer_token(cred.token),
                      create_user_check(r, raw, "Admin User"))
        \/ create_user_write(r)
        \/ \E uid \in {"u1", "u3"} :
              Depends(r, "delete_user", require_bearer_token(cred.token),
                      delete_user_exists(r, uid))
        \/ delete_user_pop(r)
        \/ \E raw \in {"new@example.com", "ada.lovelace@example.com"} :
              Depends(r, "db_create_user",
                      require_write_principal(cred.token, cred.api_key),
                      db_create_user(r, raw, "Ada Lovelace"))
        \/ \E uid \in {"d2", "d4"} :
              Depends(r, "db_delete_user",
                      require_write_principal(cred.token, cred.api_key),
                      db_delete_user(r, uid))
        \/ \E oid \in {"a3", "a4"} :
              Depends(r, "db_update_order",
                      require_order_write_principal(cred.token, cred.api_key),
                      db_update_order(r, oid, "cancelled", 0))
        \/ Finish(r)

SpecAuth == Init /\ [][NextAuth]_vars

MemWriteOps == {"create_user", "delete_user"}
DbWriteOps == {"db_create_user", "db_delete_user", "db_update_order"}

\* the request carries no valid credential: none at all, or a wrong one
Unauthenticated(op) ==
    IF op \in DbWriteOps
       THEN /\ cred.api_key \notin api_keys
            /\ decode_token(cred.token).status # 0
       ELSE cred.token # auth_token

\* C21: a create, update, replace or delete request that carries no valid
\* credential (no bearer token and no API key, or a wrong one) is rejected
\* before any core logic runs and changes no stored user, product or order,
\* in the in-memory variant and in the database-backed variant.
C21_WritesAreAuthenticated ==
    \A r \in Reqs :
        ( /\ pc[r] # "idle"
          /\ arg[r].op \in MemWriteOps \cup DbWriteOps
          /\ Unauthenticated(arg[r].op) )
            => /\ pc[r] = "done"
               /\ resp[r].status \in {401, 403}
               /\ ~dirty[r]

----------------------------------------------------------------------------
(* The warm-up process *)

Failures == {0, 503}
ReturnCodes == {0, 7}

WarmStep ==
    \/ parse_cli_arguments
    \/ \E d \in 1..MaxLatency, failure \in Failures : wait_for_service_get(d, failure)
    \/ wait_for_service_sleep
    \/ wait_for_service_raise
    \/ subprocess_run

NextWarmup ==
    \/ \E timeout \in 0..MaxTimeout, poll_interval \in 0..MaxPoll,
          ready_at \in 0..(MaxTimeout + MaxLatency + 1), returncode \in ReturnCodes :
          \/ main(timeout, poll_interval, ready_at, returncode)
          \/ run_remote_schemathesis(timeout, poll_interval, ready_at, returncode)
    \/ \E timeout \in 0..MaxTimeout, poll_interval \in 0..MaxPoll,
          ready_at \in 0..(MaxTimeout + MaxLatency + 1) :
          wait_for_service(timeout, poll_interval, ready_at)
    \/ WarmStep

SpecWarmup == Init /\ [][NextWarmup]_vars

\* the process is the only thread and keeps running until it ends
SpecWarmupFair == SpecWarmup /\ WF_vars(WarmStep)

Got200 == \E i \in DOMAIN warm.log : warm.log[i].status = 200

C22_Safe ==
    /\ (warm.waited = "returned") <=> Got200
    /\ Got200 => /\ warm.log[Len(warm.log)].status = 200
                 /\ \A i \in 1..(Len(warm.log) - 1) : warm.log[i].status # 200
    /\ \A i \in DOMAIN warm.log : warm.log[i].at < warm.deadline
    /\ (warm.waited = "raised") => (~Got200 /\ warm.now >= warm.deadline)

NeverReady == warm.ready_at >= warm.timeout + MaxLatency

C23_Safe ==
    /\ warm.started <= 1
    /\ (warm.started = 1) => (warm.waited = "returned" /\ warm.result = warm.returncode)
    /\ (warm.waited = "raised") => (warm.started = 0)
    /\ (warm.pc = "ended" /\ warm.waited = "returned"
           /\ warm.entry = "run_remote_schemathesis")
          => (warm.started = 1 /\ warm.result = warm.returncode)

\* C23: run_remote_schemathesis starts the Schemathesis process exactly once
\* and only after wait_for_service has returned, and returns that process's
\* exit code unchanged; when the warm-up raises ServiceUnavailableError the
\* process is never started, and the CLI main returns 1.
C23_SchemathesisAfterWarmup ==
    /\ []C23_Safe
    /\ (warm.entry = "main" /\ NeverReady)
          ~> (warm.pc = "ended" /\ warm.started = 0 /\ warm.result = 1)

----------------------------------------------------------------------------
(* The command builder on its own *)

ExtraArgs == {<<>>, <<"--hypothesis-deadline", "250">>, <<"--checks", "all">>,
              <<"-c", "all">>, <<"--exclude-checks", "status_code_conformance">>,
              <<"--workers", "2", "--checks", "all">>}

NextBuild ==
    \E request_timeout \in {100, 420, 600}, extra_args \in ExtraArgs :
        build_schemathesis_command_call("https://service.test", "schema.yaml",
                                        request_timeout, extra_args)

SpecBuild == Init /\ [][NextBuild]_vars

CheckFlags == {"--checks", "-c", "--exclude-checks"}

\* the command the claim describes
ExpectedCommand(c) ==
    <<"uvx", "schemathesis", "run", c.spec_path, "--base-url", c.base_url,
      "--request-timeout", FloatStr(c.request_timeout)>>
      \o (IF Range(c.extra_args) \cap CheckFlags = {}
             THEN <<"--exclude-checks", "unsupported_method">> ELSE <<>>)
      \o c.extra_args

\* C24: the command builder returns [uvx, schemathesis, run, spec path,
\* --base-url, base URL, --request-timeout, timeout], then the default pair
\* --exclude-checks unsupported_method, then the extra arguments, when the
\* extra arguments contain none of --checks, -c, --exclude-checks; when they
\* contain one of these flags, no default exclusion is added and the extra
\* arguments follow the timeout unchanged.
C24_CommandBuilder ==
    \A i \in DOMAIN calls :
        calls[i].fn = "_build_schemathesis_command"
            => calls[i].out = ExpectedCommand(calls[i])

----------------------------------------------------------------------------
(* POST /echo of the utility API *)

Messages == {<<>>, <<"a">>, <<"H", "i">>, <<"sz", "b">>}
Repeats == {0, 1, 3, 5, 6}

EchoBodies ==
    {[message |-> m] : m \in Messages}
      \cup {[message |-> m, repeat |-> n] : m \in Messages, n \in Repeats}
      \cup {[message |-> m, uppercase |-> u] : m \in Messages, u \in BOOLEAN}
      \cup {[message |-> m, repeat |-> n, uppercase |-> u] :
               m \in Messages, n \in Repeats, u \in BOOLEAN}

NextEcho == \E body \in EchoBodies : echo_call(body)

SpecEcho == Init /\ [][NextEcho]_vars

\* result is message, n times over, with nothing in between
Repeated(result, message, n) ==
    /\ Len(result) = n * Len(message)
    /\ \A k \in 1..Len(result) : result[k] = message[((k - 1) % Len(message)) + 1]

\* C25: for every valid echo request (message of length 1..1000, repeat r in
\* 1..5 defaulting to 1, uppercase defaulting to false) result is the message
\* (upper-cased when the flag is true) concatenated r times with no separator,
\* length is the length of result, repeat and uppercase are returned as
\* given; a repeat outside 1..5 is rejected with 422.
C25_Echo ==
    \A i \in DOMAIN calls :
        calls[i].fn = "echo" =>
            LET body == calls[i].body
                out == calls[i].out
                r == IF "repeat" \in DOMAIN body THEN body.repeat ELSE 1
                u == IF "uppercase" \in DOMAIN body THEN body.uppercase ELSE FALSE
            IN /\ (Len(body.message) \in 1..1000 /\ r \in 1..5)
                    => /\ out.status = 200
                       /\ Repeated(out.result,
                                   IF u THEN str_upper(body.message) ELSE body.message, r)
                       /\ out.length = Len(out.result)
                       /\ out.repeat = r
                       /\ out.uppercase = u
               /\ (r \notin 1..5) => out.status = 422

\* Hi, three times, upper-cased: HIHIHI; and a repeat of 6 refused
C25_Witness ==
    /\ Len(calls) = 2
    /\ calls[1].body = [message |-> <<"H", "i">>, repeat |-> 3, uppercase |-> TRUE]
    /\ calls[1].out.result = <<"H", "I", "H", "I", "H", "I">>
    /\ calls[1].out.length = 6
    /\ calls[2].body = [message |-> <<"a">>, repeat |-> 6]
    /\ calls[2].out.status = 422

----------------------------------------------------------------------------
(* The Allow header of the utility API *)

Methods == {"GET", "HEAD", "OPTIONS", "POST", "PUT", "TRACE"}
Paths == {"/status", "/echo", "/inspect", "/openapi.json", "/missing"}

NextAllow ==
    \E method \in Methods, path \in Paths, valid \in BOOLEAN :
        dispatch_call(method, path, valid)

SpecAllow == Init /\ [][NextAllow]_vars

\* the methods registered for a path
Registered(path) == UNION {route.methods : route \in {x \in Routes : x.path = path}}

\* C26: every 405 response carries an Allow header that lists exactly the
\* methods registered for the requested path, plus HEAD when GET is
\* registered, plus OPTIONS: GET, HEAD, OPTIONS for /status and OPTIONS, POST
\* for /echo; a response with any other status is passed through with its
\* headers unchanged.
C26_AllowHeader ==
    \A i \in DOMAIN calls :
        calls[i].fn = "dispatch" =>
            LET c == calls[i]
            IN IF c.out.status_code = 405
                  THEN /\ "allow" \in DOMAIN c.out.headers
                       /\ Range(c.out.headers.allow) =
                             Registered(c.path)
                               \cup (IF "GET" \in Registered(c.path) THEN {"HEAD"} ELSE {})
                               \cup {"OPTIONS"}
                       /\ Len(c.out.headers.allow) = Cardinality(Range(c.out.headers.allow))
                       /\ (c.path = "/status")
                             => Range(c.out.headers.allow) = {"GET", "HEAD", "OPTIONS"}
                       /\ (c.path = "/echo")
                             => Range(c.out.headers.allow) = {"OPTIONS", "POST"}
                  ELSE c.out = c.inner

\* TRACE /status and TRACE /echo, as the tests send them
C26_Witness ==
    /\ Len(calls) = 2
    /\ calls[1].method = "TRACE" /\ calls[1].path = "/status"
    /\ calls[1].out.status_code = 405
    /\ calls[1].out.headers.allow = <<"GET", "HEAD", "OPTIONS">>
    /\ calls[2].method = "TRACE" /\ calls[2].path = "/echo"
    /\ calls[2].out.status_code = 405
    /\ calls[2].out.headers.allow = <<"OPTIONS", "POST">>

----------------------------------------------------------------------------
(* The uniqueness check and the entity being written *)

\* another user holds the e-mail address the request of r carries
OtherUserHolds(r) ==
    \E id \in users_store \ {arg[r].uid} :
        lower(user_obj[id].email) = lower(arg[r].email)

\* another product holds the SKU the request of r carries
OtherProductHolds(r) ==
    \E id \in DOMAIN products_store \ {arg[r].pid} :
        upper(products_store[id].sku) = upper(arg[r].sku)

\* C27: the uniqueness check excludes the entity being written: update_user
\* that sets a user's e-mail to its own current one, or to a case variant of
\* it, and replace_product that keeps the product's own SKU do not fail with
\* Conflict when no other entity holds the value; a Conflict is raised only
\* when a different entity holds the value.
C27_CheckExcludesSelf ==
    [][\A r \in Reqs :
          /\ (pc[r] = "uu_check" /\ pc'[r] # "uu_check")
                => /\ (resp'[r].status = 409) <=> OtherUserHolds(r)
                   /\ ~OtherUserHolds(r) => pc'[r] = "uu_apply"
          /\ (pc[r] = "rp_check" /\ pc'[r] # "rp_check")
                => /\ (resp'[r].status = 409) <=> OtherProductHolds(r)
                   /\ ~OtherProductHolds(r) => pc'[r] = "rp_write"]_vars

\* the seeded admin wrote a case variant of its own address, and product 1 is
\* being replaced with its own SKU: both answered 200
C27_Witness ==
    /\ user_obj["u1"].email = "Admin@example.com"
    /\ \E r \in Reqs :
          /\ pc[r] = "done"
          /\ arg[r].op = "replace_product"
          /\ arg[r].pid = 1
          /\ arg[r].sku = "SKU-BOOK01"
          /\ resp[r].status = 200

----------------------------------------------------------------------------
(* Product identifiers *)

C28_Stored ==
    \A id \in DOMAIN products_store :
        /\ products_store[id].id = id
        /\ id < product_id_sequence

C28_Step ==
    /\ product_id_sequence' >= product_id_sequence
    /\ \A r \in Reqs :
          (pc[r] = "cp_write" /\ pc'[r] = "done")
             => /\ DOMAIN products_store' \ DOMAIN products_store = {product_id_sequence}
                /\ products_store'[product_id_sequence].id = product_id_sequence
                /\ product_id_sequence' > product_id_sequence

\* C28: product identifiers are sequential and never reused: every product
\* created, by seeding or by create_product, gets an identifier strictly
\* greater than every identifier assigned before it, also after products were
\* deleted and under concurrent create_product requests, so no two products
\* ever stored share an identifier.
C28_IdsNeverReused == []C28_Stored /\ [][C28_Step]_vars

\* two concurrent create_product requests, after the seeded product 2 was
\* deleted, got 3 and 4
C28_Witness ==
    /\ \A r \in Reqs : /\ pc[r] = "done"
                       /\ arg[r].op = "create_product"
                       /\ resp[r].status = 201
    /\ 2 \notin DOMAIN products_store
    /\ {3, 4} \subseteq DOMAIN products_store

----------------------------------------------------------------------------
(* Deletes beside updates of the same entity; nothing is created *)

NextFinal ==
    \E r \in Reqs :
        \/ \E b \in {<<"new@example.com", Unset>>, <<Unset, "Renamed">>} :
              update_user_exists(r, "u1", b[1], b[2])
        \/ update_user_check(r)
        \/ update_user_apply(r)
        \/ update_user_write(r)
        \/ delete_user_exists(r, "u1")
        \/ delete_user_pop(r)
        \/ replace_product_exists(r, 1, "SKU-BOOK01", 10000)
        \/ replace_product_check(r)
        \/ replace_product_write(r)
        \/ delete_product_exists(r, 1)
        \/ delete_product_pop(r)
        \/ update_order_exists(r, "o1", "paid")
        \/ update_order_apply(r)
        \/ update_order_write(r)
        \/ order_to_response_user(r)
        \/ order_to_response_item(r)
        \/ order_to_response_build(r)
        \/ delete_order_exists(r, "o1")
        \/ delete_order_pop(r)
        \/ Finish(r)

SpecFinal == Init /\ [][NextFinal]_vars

\* C29: a delete is final: once delete_user, delete_product or delete_order
\* has removed an entity and returned 204, that identifier is never again a
\* key of its collection, for every interleaving with concurrent update_user,
\* replace_product or update_order requests whose existence check ran before
\* the delete and whose write runs after it.
C29_DeleteIsFinal ==
    /\ \A r \in Reqs :
          (pc[r] = "done" /\ resp[r].status = 204)
             => /\ arg[r].op = "delete_user" => arg[r].uid \notin users_store
                /\ arg[r].op = "delete_product" => arg[r].pid \notin DOMAIN products_store
                /\ arg[r].op = "delete_order" => arg[r].oid \notin orders_store
    /\ "u3" \notin users_store
    /\ "o2" \notin orders_store
    /\ DOMAIN products_store \subseteq {1, 2}

----------------------------------------------------------------------------
(* The locks made explicit: a request enters a `with` block in a step of its
   own and runs the block in the next. *)

\* the lock of the first block of a handler
FirstLock(op) ==
    CASE op \in {"create_order", "update_user"} -> "users_lock"
      [] op = "replace_product" -> "products_lock"
      [] OTHER -> "orders_lock"

\* with lock: -- Lock.acquire() goes through when the lock is free.  A request
\* not yet in a handler enters the first block of the handler it is for.
acquire(r, k) ==
    /\ lock_owner[k] = "none"
    /\ IF pc[r] = "idle"
          THEN \A j \in Locks : lock_owner[j] # r
          ELSE LockHeld(pc[r]) = k
    /\ lock_owner' = [lock_owner EXCEPT ![k] = r]
    /\ UNCHANGED <<mem_vars, req_vars, side_vars>>

\* the request is inside the block its next step belongs to, or needs none
Ready(r) ==
    IF LockHeld(pc[r]) = "none" THEN TRUE ELSE lock_owner[LockHeld(pc[r])] = r

\* the request is inside the first block of the handler of op
Entered(r, op) == lock_owner[FirstLock(op)] = r

\* one create_order at a time, while an identifier and a clock value are left
CreateOrderFits(r) ==
    /\ clock < MaxClock
    /\ \E id \in OrderIds : order_obj[id] = NoOrder
    /\ \A q \in Reqs \ {r} : arg[q].op # "create_order"

LockStep(r) ==
    \/ /\ Entered(r, "create_order")
       /\ CreateOrderFits(r)
       /\ create_order_user(r, "u1", <<Line(1, 1)>>, "card", Unset)
    \/ Ready(r) /\ create_order_item(r)
    \/ Ready(r) /\ create_order_insert(r)
    \/ Ready(r) /\ order_to_response_user(r)
    \/ Ready(r) /\ order_to_response_item(r)
    \/ Ready(r) /\ order_to_response_build(r)
    \/ /\ Entered(r, "update_user")
       /\ \E raw \in {"member@example.com", "new@example.com"} :
             update_user_exists(r, "u1", raw, Unset)
    \/ Ready(r) /\ update_user_check(r)
    \/ Ready(r) /\ update_user_apply(r)
    \/ Ready(r) /\ update_user_write(r)
    \/ /\ Entered(r, "replace_product")
       /\ \E raw_sku \in {"SKU-BOOK01", "SKU-DEV999"} :
             replace_product_exists(r, 1, raw_sku, 10000)
    \/ Ready(r) /\ replace_product_check(r)
    \/ Ready(r) /\ replace_product_write(r)
    \/ /\ Entered(r, "update_order")
       /\ update_order_exists(r, "o1", "paid")
    \/ Ready(r) /\ update_order_apply(r)
    \/ Ready(r) /\ update_order_write(r)

NextLocks ==
    \E r \in Reqs :
        \/ \E k \in Locks : acquire(r, k)
        \/ LockStep(r)
        \/ Finish(r)

SpecLocks == Init /\ [][NextLocks]_vars

\* every thread keeps running; a thread blocked in Lock.acquire() is woken
\* when the lock is released
SpecLocksFair ==
    /\ SpecLocks
    /\ \A r \in Reqs : WF_vars(LockStep(r))
    /\ \A r \in Reqs : \A k \in Locks : SF_vars(pc[r] # "idle" /\ acquire(r, k))

\* the request waits to enter the block of lock k
Waits(r, k) == pc[r] # "idle" /\ LockHeld(pc[r]) = k /\ lock_owner[k] # r

C30_Safe ==
    \A r \in Reqs :
        /\ Cardinality({k \in Locks : lock_owner[k] = r}) <= 1
        /\ pc[r] = "done" => \A k \in Locks : lock_owner[k] # r
        /\ \A k \in Locks : lock_owner[k] = r =>
              (pc[r] = "idle" \/ LockHeld(pc[r]) = k)

====
